---- MODULE Spec2Model ----
(***************************************************************************)
(* A model of chatbot.py: the persistent store and its migrations, the     *)
(* session registry (active_chats), the dispatcher loop of main(), one     *)
(* worker thread per conversation (per_chatid_message_handler), the tool   *)
(* handlers it calls and the maintenance thread.                           *)
(***************************************************************************)
EXTENDS Integers, Sequences, FiniteSets, TLC

(* ---------------------------------------------------------------------- *)
(* Identities and bounds                                                   *)
(* ---------------------------------------------------------------------- *)

\* TELEGRAM_ADMIN_ID, the configured administrative identity.
TELEGRAM_ADMIN_ID == 1

\* Conversation ids that appear in updates: the administrator and one other.
ChatIds == {1, 2}

\* SQL NULL and Python None as column or field values. Flag columns hold "0",
\* "1" or NULL.
NULL == "NULL"
\* No row with that id in the users table.
NoRow == [absent |-> TRUE]

(* ---------------------------------------------------------------------- *)
(* The store (sqlite): schema, stored version and the rows of the tables   *)
(* ---------------------------------------------------------------------- *)

EmptyDb ==
    [user_version |-> 0,
     tables       |-> {},
     columns      |-> {},
     users        |-> [c \in ChatIds |-> NoRow],
     items        |-> <<>>,
     images       |-> <<>>,
     expenses     |-> <<>>,
     completions  |-> <<>>]

\* A statement runs on r = [db, uv, err]: the store, the local user_version of
\* connect_to_database and whether an sqlite3.Error is propagating. Once an
\* error propagates the remaining statements are not executed.
Raise(r) == [r EXCEPT !.err = TRUE]

\* CREATE TABLE t (cs): sqlite rejects it when the table exists.
CreateTable(r, t, cs) ==
    IF r.err THEN r
    ELSE IF t \in r.db.tables THEN Raise(r)
    ELSE [r EXCEPT !.db.tables = @ \cup {t},
                   !.db.columns = @ \cup {<<t, c>> : c \in cs}]

\* ALTER TABLE t ADD COLUMN c: rejected when t is missing or c exists.
AddColumn(r, t, c) ==
    IF r.err THEN r
    ELSE IF t \notin r.db.tables \/ <<t, c>> \in r.db.columns THEN Raise(r)
    ELSE [r EXCEPT !.db.columns = @ \cup {<<t, c>>}]

\* ALTER TABLE t RENAME COLUMN old TO new.
RenameColumn(r, t, old, new) ==
    IF r.err THEN r
    ELSE IF <<t, old>> \notin r.db.columns \/ <<t, new>> \in r.db.columns
         THEN Raise(r)
    ELSE [r EXCEPT !.db.columns = (@ \ {<<t, old>>}) \cup {<<t, new>>}]

\* ALTER TABLE t ALTER COLUMN c TEXT: sqlite has no ALTER COLUMN, the statement
\* is a syntax error (sqlite3.OperationalError) whatever the store holds.
AlterColumn(r, t, c) ==
    IF r.err THEN r ELSE Raise(r)

\* SELECT the admin row, INSERT it (user_allowed = 1) when there is none.
SeedAdmin(r) ==
    IF r.err THEN r
    ELSE IF r.db.users[TELEGRAM_ADMIN_ID] # NoRow THEN r
    ELSE [r EXCEPT !.db.users[TELEGRAM_ADMIN_ID] =
                       [user_allowed |-> "1", is_admin |-> NULL,
                        last_contact_timestamp |-> NULL]]

\* UPDATE users SET is_admin = 1 WHERE id = TELEGRAM_ADMIN_ID.
PromoteAdmin(r) ==
    IF r.err THEN r
    ELSE IF r.db.users[TELEGRAM_ADMIN_ID] = NoRow THEN r
    ELSE [r EXCEPT !.db.users[TELEGRAM_ADMIN_ID].is_admin = "1"]

\* A block that stores the new version without assigning the local
\* user_version: the later blocks of the same run are skipped.
SetVersionStoredOnly(r, v) ==
    IF r.err THEN r
    ELSE [r EXCEPT !.db.user_version = v]

\* user_version = v; PRAGMA user_version = v; commit.
SetVersion(r, v) ==
    IF r.err THEN r
    ELSE [r EXCEPT !.uv = v, !.db.user_version = v]

UsersCols0 == {"id", "first_name", "last_name", "nickname", "first_contact",
               "user_allowed"}
ItemsCols == {"id", "chatid", "item", "owner", "quantity"}
ImagesCols == {"id", "chatid", "image_filename", "timestamp_created",
               "timestamp_deleted", "prompt", "revised_prompt"}
ExpensesCols == {"id", "chatid", "amount", "category", "date", "description"}
CompletionsCols3 == {"id", "chatid", "completion_id", "completion_created",
                     "completion_model", "completion_response",
                     "prompt_tokens", "completion_tokens"}

\* if user_version == 0: users, items, images, the admin row, version 1.
MigrationV0(r) ==
    IF r.err \/ r.uv # 0 THEN r
    ELSE SetVersion(
           SeedAdmin(
             CreateTable(
               CreateTable(
                 CreateTable(r, "users", UsersCols0),
                 "items", ItemsCols),
               "images", ImagesCols)),
           1)

\* if user_version == 1: rename first_contact, add last_contact_timestamp and
\* is_admin, make the admin an admin, version 2.
MigrationV1(r) ==
    IF r.err \/ r.uv # 1 THEN r
    ELSE SetVersion(
           PromoteAdmin(
             AddColumn(
               AddColumn(
                 RenameColumn(r, "users", "first_contact",
                              "first_contact_timestamp"),
                 "users", "last_contact_timestamp"),
               "users", "is_admin")),
           2)

\* if user_version == 2: the expenses table, version 3.
MigrationV2(r) ==
    IF r.err \/ r.uv # 2 THEN r
    ELSE SetVersion(CreateTable(r, "expenses", ExpensesCols), 3)

\* if user_version == 3: usage counters of users, the completions table,
\* version 4.
MigrationV3(r) ==
    IF r.err \/ r.uv # 3 THEN r
    ELSE SetVersion(
           CreateTable(
             AddColumn(
               AddColumn(
                 AddColumn(r, "users", "total_completion_tokens"),
                 "users", "total_prompt_tokens"),
               "users", "total_images"),
             "completions", CompletionsCols3),
           4)

\* if user_version == 4: finish_reason, then ALTER COLUMN, version 5.
MigrationV4(r) ==
    IF r.err \/ r.uv # 4 THEN r
    ELSE SetVersion(
           AlterColumn(
             AddColumn(r, "completions", "finish_reason"),
             "completions", "completion_response"),
           5)

\* The migration blocks in the order of the source.
MigrationStep(k, r) ==
    CASE k = 0 -> MigrationV0(r)
      [] k = 1 -> MigrationV1(r)
      [] k = 2 -> MigrationV2(r)
      [] k = 3 -> MigrationV3(r)
      [] k = 4 -> MigrationV4(r)

\* The store a started process works on: every migration applied.
OpenedDb ==
    [EmptyDb EXCEPT
       !.user_version = 5,
       !.tables = {"users", "items", "images", "expenses", "completions"},
       !.columns = {<<"users", c>> : c \in (UsersCols0 \ {"first_contact"}) \cup
                       {"first_contact_timestamp", "last_contact_timestamp",
                        "is_admin", "total_completion_tokens",
                        "total_prompt_tokens", "total_images"}}
                   \cup {<<"items", c>> : c \in ItemsCols}
                   \cup {<<"images", c>> : c \in ImagesCols}
                   \cup {<<"expenses", c>> : c \in ExpensesCols}
                   \cup {<<"completions", c>> :
                           c \in CompletionsCols3 \cup {"finish_reason"}},
       !.users[TELEGRAM_ADMIN_ID] =
           [user_allowed |-> "1", is_admin |-> "1",
            last_contact_timestamp |-> NULL]]

(* ---------------------------------------------------------------------- *)
(* Bounds of the model                                                     *)
(* ---------------------------------------------------------------------- *)

\* Updates the dispatcher polls in one run.
MaxUpdates == 2
\* Runs of connect_to_database against one store.
MaxRuns == 2
\* Texts waiting on the queue when a turn-level run starts.
MaxQueued == 2
\* Worker threads the process can start.
MaxThreads == 3
\* Tool calls in one completion result.
MaxCalls == 2
\* The timestamps a media handler can read off the clock.
MaxStamps == 2

Threads == 1..MaxThreads

(* ---------------------------------------------------------------------- *)
(* State                                                                   *)
(* ---------------------------------------------------------------------- *)

VARIABLES
    db,             \* the committed contents of the sqlite file
    db_write_lock,  \* threading.Lock: Free or the thread that acquired it
    active_chats,   \* the session registry: chatid -> session or NoSession
    main,           \* the dispatcher loop of main()
    maintenance,    \* the thread running maintenance_tasks()
    worker,         \* the threads running per_chatid_message_handler
    voice,          \* threads running extract_text_from_voice_message
    outbox,         \* what send_message has sent, in order
    nupdates,       \* updates polled so far
    enq,            \* per chatid, the texts put on its queues, in put order
    userlog,        \* per chatid, the texts whose user entry was appended
    files,          \* the filesystem: path -> content of the existing files
    cursor          \* db_cursor: the rows its last statement left to fetch

vars == <<db, db_write_lock, active_chats, main, maintenance, worker, voice,
          outbox, nupdates, enq, userlog, files, cursor>>

Free == <<"free", 0>>
MainT == <<"main", 0>>
MaintT == <<"maintenance", 0>>
W(t) == <<"worker", t>>

NoSession == [exists |-> FALSE]

\* active_chats[chatid] as main() builds it (lines 842-1133).
NewSession(is_admin, t) ==
    [exists                 |-> TRUE,
     message_history        |-> <<>>,
     message_queue          |-> <<>>,
     model                  |-> "gpt-3.5-turbo-0125",
     is_admin               |-> is_admin,
     tools                  |-> IF is_admin THEN "base+admin" ELSE "base",
     thread                 |-> t,
     last_contact_timestamp |-> "unset"]

Entry(role, content, text, id, name, ncalls) ==
    [role |-> role, content |-> content, text |-> text, tool_call_id |-> id,
     name |-> name, tool_calls |-> ncalls]

NoResponse == [content |-> NULL, tool_calls |-> <<>>]

\* A path of the filesystem: an image of a chat under IMAGE_FILE_PATH
\* (lines 94-97), named by the second it was requested in, or a speech file
\* under /tmp (line 141), named by the timestamp of the request.
NoPath == <<"", 0, 0>>
ImagePath(c, image_filename) == <<"image", c, image_filename>>
AudioPath(timestamp) == <<"audio", 0, timestamp>>

\* The filesystem without a file, os.path.exists, open(path, "wb").write
\* and os.remove.
NoFiles == [p \in {} |-> 0]
Exists(fs, p) == p \in DOMAIN fs
WriteFile(fs, p, content) ==
    [q \in DOMAIN fs \cup {p} |-> IF q = p THEN content ELSE fs[q]]
RemoveFile(fs, p) == [q \in DOMAIN fs \ {p} |-> fs[q]]

\* A thread that has not been started. The fields are the locals of
\* per_chatid_message_handler: prompt, response (with response_message and
\* tool_calls), the position idx of the loop over tool_calls and
\* function_response, which has no value until a handler returned. site is
\* the write section the thread is in, nreq counts the completion requests
\* of the turn and requests tells for each whether it carried the tool
\* definitions, path is image_path or audio_file_path of the media handler
\* the thread is in, entries lists the tool_call ids whose tool entry the turn
\* appended, outcome and exc tell how the last turn ended ("reply", "failed",
\* "cleared") and which exception line 551 caught. assigned tells whether
\* function_response was assigned since line 444 took the current tool call,
\* rows is what the fetchall() of the current call's handler returned.
Unstarted ==
    [pc |-> "unstarted", chatid |-> 0, prompt |-> 0, response |-> NoResponse,
     idx |-> 0, function_response |-> "unbound", assigned |-> FALSE,
     rows |-> <<>>, site |-> "", nreq |-> 0, requests |-> <<>>,
     path |-> NoPath, outcome |-> "", exc |-> "", entries |-> <<>>]

(* ---------------------------------------------------------------------- *)
(* Helpers                                                                 *)
(* ---------------------------------------------------------------------- *)

\* An optional tool argument is <<>> (None, not given) or <<v>>.
None == <<>>
\* Python truthiness of an optional number: None and 0 are false.
Truthy(x) == x # None /\ x[1] # 0

\* db_cursor after a statement that returns no row, and after a fetch that
\* took the last row.
NoRows == <<>>

\* The number of rows the SELECT q returns for chat c on the store d.
\*   allowed, known, is_admin: the dispatcher's SELECT * FROM users WHERE
\*     id = ? [AND user_allowed = 1 | AND is_admin = 1] (lines 821, 824, 849)
\*   images: the maintenance thread's SELECT (line 745)
\*   the other names are the handlers that read (lines 207-210, 257, 268,
\*     330-337, 349)
Matching(d, q, c) ==
    CASE q = "allowed" ->
           IF d.users[c] # NoRow /\ d.users[c].user_allowed = "1"
           THEN 1 ELSE 0
      [] q = "known" -> IF d.users[c] # NoRow THEN 1 ELSE 0
      [] q = "is_admin" ->
           IF d.users[c] # NoRow /\ d.users[c].is_admin = "1" THEN 1 ELSE 0
      [] q = "images" ->
           Cardinality({k \in DOMAIN d.images :
                           d.images[k].timestamp_deleted = NULL})
      [] q = "show_items_list" ->
           Cardinality({k \in DOMAIN d.items : d.items[k].chatid = c})
      [] q \in {"retrieve_expenses", "retrieve_expense_categories"} ->
           Cardinality({k \in DOMAIN d.expenses : d.expenses[k].chatid = c})
      [] q = "list_unallowed_users" ->
           Cardinality({x \in ChatIds : /\ d.users[x] # NoRow
                                        /\ d.users[x].user_allowed = "0"})
      [] q = "list_admin_users" ->
           Cardinality({x \in ChatIds : /\ d.users[x] # NoRow
                                        /\ d.users[x].is_admin = "1"})

\* db_cursor.execute(SELECT ...): the cursor holds the rows of the query,
\* named by the query and its chat, whatever it held before.
Select(d, q, c) == IF Matching(d, q, c) > 0 THEN <<q, c>> ELSE NoRows

\* db_cursor after fetchone(): the rows after the first.
AfterFetchone(d, cur) ==
    IF cur # NoRows /\ Matching(d, cur[1], cur[2]) > 1 THEN cur ELSE NoRows

\* list.append on active_chats[c]['message_history'].
HistoryAppend(chats, c, e) ==
    [chats EXCEPT ![c].message_history = Append(@, e)]

\* send_message(text, chatid): get_url swallows every transport error.
Send(box, c, text) == Append(box, [chatid |-> c, text |-> text])

\* An acquire that does not wait.
AcquireUnguarded(lock) == TRUE

\* db_write_lock.acquire() returns only when the lock is free.
CanAcquire(lock) == lock = Free

\* A get that returns the newest item.
QueueGetNewest(q) == q[Len(q)]

\* queue.Queue.get(): the oldest item.
QueueGet(q) == Head(q)

\* The tool names main() registers in available_functions (lines 1168-1184).
available_functions ==
    {"render_dalle_image", "generate_text_to_speech",
     "add_thing_to_items_list", "show_items_list", "retrieve_expenses",
     "retrieve_expense_categories", "add_expense", "remove_expenses",
     "clear_message_history", "list_unallowed_users", "list_admin_users",
     "allow_chatid_to_chat_with_bot", "disallow_chatid_to_chat_with_bot",
     "promote_user_to_admin", "gpt_model"}

\* The tools main() adds to the tools list of an admin's session (lines
\* 1046-1130).
AdminTools ==
    {"list_unallowed_users", "list_admin_users",
     "allow_chatid_to_chat_with_bot", "promote_user_to_admin",
     "disallow_chatid_to_chat_with_bot", "gpt_model"}

\* The names the if/elif chain of the worker has a branch for (lines 447-521).
DispatchBranches ==
    available_functions \ {"disallow_chatid_to_chat_with_bot"}

\* Handlers that write to the store under db_write_lock in one statement.
WritingHandlers ==
    {"add_expense", "remove_expenses", "add_thing_to_items_list",
     "allow_chatid_to_chat_with_bot"}

\* Handlers that only read the store or the session.
ReadingHandlers ==
    {"show_items_list", "retrieve_expenses", "retrieve_expense_categories",
     "list_unallowed_users", "list_admin_users"}

NoArgs == [amount |-> None, date |-> None, start_date |-> None,
           end_date |-> None, target |-> 0, form |-> "str"]

Call(name, args) == [name |-> name, args |-> args]

\* The statement a write site executes, applied to the committed store.
\*   audit1, audit2: INSERT INTO completions (lines 429-433, 539-543)
\*   add_expense: INSERT INTO expenses (line 362)
\*   remove_expenses: DELETE FROM expenses (lines 378, 389)
\*   add_thing_to_items_list: INSERT INTO items (line 190)
\*   allow_chatid_to_chat_with_bot: UPDATE users SET user_allowed = 1 (line 300)
\*   render_dalle_image: INSERT INTO images (line 121), the id is the rowid
\*   new_user: INSERT INTO users of main() (lines 833-834)
\*   touch: UPDATE users SET last_contact_timestamp of main() (line 1137)
\*   mark_deleted: UPDATE images SET timestamp_deleted of the maintenance
\*     thread (line 768); turn is the id of the image row
ApplyWrite(d, site, c, turn, a) ==
    CASE site \in {"audit1", "audit2"} ->
           [d EXCEPT !.completions =
                Append(@, [chatid |-> c, completion_id |-> turn,
                           finish_reason |-> (site = "audit1")])]
      [] site = "add_expense" ->
           [d EXCEPT !.expenses =
                Append(@, [chatid |-> c, amount |-> a.amount[1],
                           date |-> a.date[1]])]
      [] site = "remove_expenses" ->
           [d EXCEPT !.expenses =
                IF Truthy(a.amount) /\ a.date # None
                THEN SelectSeq(@, LAMBDA e :
                         ~(e.chatid = c /\ e.amount = a.amount[1]
                           /\ e.date = a.date[1]))
                ELSE SelectSeq(@, LAMBDA e :
                         ~(e.chatid = c /\ e.date >= a.start_date[1]
                           /\ e.date <= a.end_date[1]))]
      [] site = "add_thing_to_items_list" ->
           [d EXCEPT !.items = Append(@, [chatid |-> c])]
      [] site = "render_dalle_image" ->
           [d EXCEPT !.images =
                Append(@, [id |-> Len(@) + 1, chatid |-> c,
                           image_filename |-> turn,
                           timestamp_deleted |-> NULL])]
      [] site = "new_user" ->
           [d EXCEPT !.users[c] = [user_allowed |-> "0", is_admin |-> NULL,
                                   last_contact_timestamp |-> NULL]]
      [] site = "touch" ->
           IF d.users[c] = NoRow THEN d
           ELSE [d EXCEPT !.users[c].last_contact_timestamp = "set"]
      [] site = "mark_deleted" ->
           [d EXCEPT !.images = [i \in DOMAIN @ |->
                IF @[i].id = turn
                THEN [@[i] EXCEPT !.timestamp_deleted = "set"]
                ELSE @[i]]]
      [] site = "allow_chatid_to_chat_with_bot" ->
           IF a.target \in ChatIds /\ d.users[a.target] # NoRow
           THEN [d EXCEPT !.users[a.target].user_allowed = "1"]
           ELSE d

(* ---------------------------------------------------------------------- *)
(* per_chatid_message_handler: one thread per session                      *)
(* ---------------------------------------------------------------------- *)

\* The turn ends and the loop is back at message_queue.get(): after the
\* reply (line 556), after except Exception (lines 551-554) or after except
\* MessageClearedException (lines 547-550).
TurnEnds(w, outcome, exc) ==
    [w EXCEPT !.pc = "idle", !.outcome = outcome, !.exc = exc]

\* A worker whose messages are never sent.
OutboxUnchanged(box, w2) == box

\* What send_message has sent once the worker w2 has taken its step: the
\* reply, the error notice or the fixed notice of a cleared history when the
\* step ended the turn.
OutboxAfter(box, w2) ==
    IF w2.pc = "idle" THEN Send(box, w2.chatid, w2.outcome) ELSE box

\* Line 414: message_queue.get() returns the next prompt; line 418 appends
\* the system entry with the current date.
Dequeue(t) ==
    LET w == worker[t]
        c == w.chatid
    IN /\ w.pc = "idle"
       /\ active_chats[c].exists
       /\ active_chats[c].message_queue # <<>>
       /\ active_chats' =
            [active_chats EXCEPT
               ![c].message_queue = Tail(@),
               ![c].message_history =
                   Append(@, Entry("system", "date", 0, 0, "", 0))]
       /\ worker' = [worker EXCEPT
               ![t].pc = "append_user",
               ![t].prompt = QueueGet(active_chats[c].message_queue),
               ![t].nreq = 0, ![t].requests = <<>>,
               ![t].outcome = "", ![t].exc = "",
               ![t].entries = <<>>]
       /\ UNCHANGED <<db, db_write_lock, main, maintenance, voice, outbox,
                      nupdates, enq, userlog, files, cursor>>

\* Line 419: the user entry with the dequeued text.
AppendUser(t) ==
    LET w == worker[t]
        c == w.chatid
    IN /\ w.pc = "append_user"
       /\ active_chats' = HistoryAppend(active_chats, c,
                              Entry("user", "prompt", w.prompt, 0, "", 0))
       /\ userlog' = [userlog EXCEPT ![c] = Append(@, w.prompt)]
       /\ worker' = [worker EXCEPT ![t].pc = "completing"]
       /\ UNCHANGED <<db, db_write_lock, main, maintenance, voice, outbox,
                      nupdates, enq, files, cursor>>

\* chat.completions.create is called: with tools = the session's tools at
\* lines 421-426, without tools at lines 533-536.
Requested(w) ==
    [w EXCEPT !.nreq = @ + 1,
              !.requests = Append(@, IF w.pc = "completing"
                                     THEN "tools" ELSE "no_tools")]

\* A failure handling that also appends a reply entry.
CompletionFailsWithReply(t) ==
    LET w == worker[t]
        w2 == TurnEnds(Requested(w), "failed", "completion")
    IN /\ w.pc \in {"completing", "followup"}
       /\ worker' = [worker EXCEPT ![t] = w2]
       /\ outbox' = OutboxAfter(outbox, w2)
       /\ active_chats' = HistoryAppend(active_chats, w.chatid,
              Entry("assistant", NULL, w.prompt, 0, "", 0))
       /\ UNCHANGED <<db, db_write_lock, main, maintenance, voice, nupdates,
                      enq, userlog, files, cursor>>

\* Lines 421-426 and 533-536: chat.completions.create raises; except
\* Exception sends the notice and continues the loop.
CompletionFails(t) ==
    LET w == worker[t]
        w2 == TurnEnds(Requested(w), "failed",
                       IF w.pc = "completing" THEN "completion"
                       ELSE "followup")
    IN /\ w.pc \in {"completing", "followup"}
       /\ worker' = [worker EXCEPT ![t] = w2]
       /\ outbox' = OutboxAfter(outbox, w2)
       /\ UNCHANGED <<db, db_write_lock, active_chats, main, maintenance,
                      voice, nupdates, enq, userlog, files, cursor>>

\* Lines 421-426: the first completion returns r; the audit row is next.
CompletionReturns(t, r) ==
    /\ worker[t].pc = "completing"
    /\ worker' = [worker EXCEPT ![t] =
                     [Requested(worker[t]) EXCEPT !.pc = "acquire",
                                                  !.site = "audit1",
                                                  !.response = r,
                                                  !.idx = 0]]
    /\ UNCHANGED <<db, db_write_lock, active_chats, main, maintenance, voice,
                   outbox, nupdates, enq, userlog, files, cursor>>

\* Lines 533-546: the follow-up completion (without tools) returns a message
\* with the given content; its audit row is next.
FollowUpReturns(t, content) ==
    /\ worker[t].pc = "followup"
    /\ worker' = [worker EXCEPT ![t] =
                     [Requested(worker[t]) EXCEPT
                         !.pc = "acquire",
                         !.site = "audit2",
                         !.response.content = content]]
    /\ UNCHANGED <<db, db_write_lock, active_chats, main, maintenance, voice,
                   outbox, nupdates, enq, userlog, files, cursor>>

\* db_write_lock.acquire() of a write site of the worker or a handler.
WorkerAcquire(t) ==
    /\ worker[t].pc = "acquire"
    /\ CanAcquire(db_write_lock)
    /\ db_write_lock' = W(t)
    /\ worker' = [worker EXCEPT ![t].pc = "write"]
    /\ UNCHANGED <<db, active_chats, main, maintenance, voice, outbox,
                   nupdates, enq, userlog, files, cursor>>

\* A write error that leaves the handler and reaches except Exception.
WriteErrorEscapes(w) == TurnEnds(w, "failed", "store")

\* Where the worker continues when the statement of a write site raises
\* sqlite3.Error: the audit rows are inside the turn's try (line 551); the
\* handlers catch it and return an error status.
AfterWriteError(w) ==
    IF w.site \in {"audit1", "audit2"}
    THEN TurnEnds(w, "failed", "store")
    ELSE [w EXCEPT !.pc = "append_tool", !.function_response = "error",
                   !.assigned = TRUE]

\* The lock after a write site's statement raised: only
\* add_thing_to_items_list releases it (finally, line 195); every other site
\* releases inside the try, after the commit.
LockAfterWriteError(lock, site) ==
    IF site = "add_thing_to_items_list" THEN Free ELSE lock

\* cursor.execute(...); commit() of the site: the store takes the statement,
\* or rejects it (sqlite3.Error) and is unchanged. The statement is executed
\* on db_cursor, which holds no row after it.
WorkerWrite(t) ==
    LET w == worker[t]
        args == IF w.site \in {"audit1", "audit2"} THEN NoArgs
                ELSE w.response.tool_calls[w.idx].args
    IN /\ w.pc = "write"
       /\ \E ok \in BOOLEAN :
            IF ok
            THEN /\ db' = ApplyWrite(db, w.site, w.chatid,
                                     IF w.site = "render_dalle_image"
                                     THEN w.path[3] ELSE w.prompt, args)
                 /\ worker' = [worker EXCEPT ![t].pc = "release"]
                 /\ UNCHANGED <<db_write_lock, outbox>>
            ELSE /\ worker' = [worker EXCEPT ![t] = AfterWriteError(w)]
                 /\ outbox' = OutboxAfter(outbox, AfterWriteError(w))
                 /\ db_write_lock' = LockAfterWriteError(db_write_lock, w.site)
                 /\ UNCHANGED db
       /\ cursor' = NoRows
       /\ UNCHANGED <<active_chats, main, maintenance, voice,
                      nupdates, enq, userlog, files>>

\* Lines 307-308 of allow_chatid_to_chat_with_bot: a target that is a key of
\* active_chats gets is_admin = 1. The keys are the integer chat ids of the
\* updates, so an id the model passes as a string is not among them.
AllowInMemory(chats, w) ==
    LET a == w.response.tool_calls[w.idx].args
    IN IF /\ a.form = "int"
          /\ a.target \in ChatIds
          /\ chats[a.target].exists
       THEN [chats EXCEPT ![a.target].is_admin = TRUE]
       ELSE chats

\* A worker that asks for another completion after the follow-up.
AfterReleaseAgain(w) ==
    CASE w.site = "audit1" ->
           IF w.response.tool_calls # <<>>
           THEN [w EXCEPT !.pc = "dispatch", !.idx = 1]
           ELSE [w EXCEPT !.pc = "emit"]
      [] w.site = "audit2" ->
           [w EXCEPT !.pc = IF w.nreq < 3 THEN "followup" ELSE "emit"]
      [] w.site = "render_dalle_image" -> [w EXCEPT !.pc = "send_photo"]
      [] OTHER -> [w EXCEPT !.pc = "append_tool", !.function_response = "ok",
                            !.assigned = TRUE]

\* Where the worker continues after db_write_lock.release().
\*   audit1 (lines 435-441): with tool calls the loop over them starts,
\*     without the reply is emitted;
\*   audit2 (line 546): the reply is emitted;
\*   render_dalle_image (line 128): the photo is sent;
\*   the other handlers return their success status.
AfterRelease(w) ==
    CASE w.site = "audit1" ->
           IF w.response.tool_calls # <<>>
           THEN [w EXCEPT !.pc = "dispatch", !.idx = 1]
           ELSE [w EXCEPT !.pc = "emit"]
      [] w.site = "audit2" -> [w EXCEPT !.pc = "emit"]
      [] w.site = "render_dalle_image" -> [w EXCEPT !.pc = "send_photo"]
      [] OTHER -> [w EXCEPT !.pc = "append_tool", !.function_response = "ok",
                            !.assigned = TRUE]

\* The sessions after db_write_lock.release(): line 441 appends the
\* assistant's reply that carries tool calls; allow_chatid_to_chat_with_bot
\* updates the target's session.
ChatsAfterRelease(chats, w) ==
    CASE w.site = "audit1" /\ w.response.tool_calls # <<>> ->
           HistoryAppend(chats, w.chatid,
               Entry("assistant", w.response.content, w.prompt, 0, "",
                     Len(w.response.tool_calls)))
      [] w.site = "allow_chatid_to_chat_with_bot" -> AllowInMemory(chats, w)
      [] OTHER -> chats

\* db_write_lock.release() after the commit, and what follows it up to the
\* next step of the thread.
WorkerRelease(t) ==
    /\ worker[t].pc = "release"
    /\ db_write_lock' = Free
    /\ worker' = [worker EXCEPT ![t] = AfterRelease(worker[t])]
    /\ active_chats' = ChatsAfterRelease(active_chats, worker[t])
    /\ UNCHANGED <<db, main, maintenance, voice, outbox, nupdates, enq,
                   userlog, files, cursor>>

\* What a handler without a write section can return: "ok" or "error" is the
\* status of the returned JSON, "raise" an exception that leaves the handler.
\*   Reading handlers catch sqlite3.Error (lines 205-214, 256-261, ...).
\*   remove_expenses without an exact pair or a range (line 398).
\*   generate_text_to_speech: generation and file errors are caught, the
\*   requests.post of line 163 is outside every try.
\*   gpt_model (lines 172-179).
\*   render_dalle_image returns an error before its INSERT when the
\*   generation, the directory, the existence check or the file write fails
\*   (lines 87-117), and proceeds to the INSERT otherwise.
HandlerOutcomes(call) ==
    CASE call.name \in ReadingHandlers -> {"ok", "error"}
      [] call.name = "remove_expenses" -> {"error"}
      [] call.name = "generate_text_to_speech" -> {"ok", "error", "raise"}
      [] call.name = "render_dalle_image" -> {"error", "proceed"}
      [] OTHER -> {"ok"}

\* remove_expenses enters a write section when it has an exact (amount, date)
\* pair (line 375) or a (start_date, end_date) range (line 386).
RemoveHasTarget(a) ==
    \/ Truthy(a.amount) /\ a.date # None
    \/ a.start_date # None /\ a.end_date # None

\* The worker after lines 444-521 for the tool call at w.idx, up to the write
\* section of the handler if it has one; out is the handler's outcome.
\*   line 445: a name outside available_functions raises KeyError;
\*   line 487: promote_user_to_admin is called with the keyword id_to_promote,
\*     which it does not have: TypeError;
\*   lines 517-521: clear_message_history, then MessageClearedException;
\*   no branch for disallow_chatid_to_chat_with_bot: function_response keeps
\*     its value, and line 522 raises UnboundLocalError if it has none.
Dispatched(w, out) ==
    LET call == w.response.tool_calls[w.idx]
    IN CASE call.name \notin available_functions ->
              TurnEnds(w, "failed", "tool")
         [] call.name = "promote_user_to_admin" ->
              TurnEnds(w, "failed", "tool")
         [] call.name = "clear_message_history" ->
              TurnEnds([w EXCEPT !.function_response = "ok"], "cleared", "")
         [] call.name \notin DispatchBranches ->
              IF w.function_response = "unbound"
              THEN TurnEnds(w, "failed", "tool")
              ELSE [w EXCEPT !.pc = "append_tool"]
         [] \/ call.name \in WritingHandlers
               /\ (call.name = "remove_expenses" => RemoveHasTarget(call.args))
            \/ call.name = "render_dalle_image" /\ out = "proceed" ->
              [w EXCEPT !.pc = "acquire", !.site = call.name]
         [] out = "raise" ->
              TurnEnds(w, "failed", "tool")
         [] call.name \in ReadingHandlers /\ out = "ok" ->
              [w EXCEPT !.pc = "fetch", !.site = call.name]
         [] OTHER ->
              [w EXCEPT !.pc = "append_tool", !.function_response = out,
                        !.assigned = TRUE]

\* A clear_message_history that keeps the history.
ChatsKeptOnClear(chats, w) == chats

\* Line 404: clear_message_history replaces the history by [].
ChatsAfterDispatch(chats, w) ==
    IF w.response.tool_calls[w.idx].name = "clear_message_history"
    THEN [chats EXCEPT ![w.chatid].message_history = <<>>]
    ELSE chats

\* The handlers that write an artifact to the filesystem.
MediaHandlers == {"render_dalle_image", "generate_text_to_speech"}

\* Lines 76 and 141: datetime.now() when the handler is entered.
Stamps(call) ==
    IF call.name \in MediaHandlers THEN 1..MaxStamps ELSE {0}

\* image_path (lines 94-97) and audio_file_path (line 141) for the
\* timestamp the handler read.
MediaPath(w, stamp) ==
    LET call == w.response.tool_calls[w.idx]
    IN CASE call.name = "render_dalle_image" -> ImagePath(w.chatid, stamp)
         [] call.name = "generate_text_to_speech" -> AudioPath(stamp)
         [] OTHER -> NoPath

\* Lines 107-109: render_dalle_image returns an error when image_path
\* exists; generate_text_to_speech has no such check.
Ran(fs, w, out, p) ==
    IF /\ w.response.tool_calls[w.idx].name = "render_dalle_image"
       /\ out = "proceed"
       /\ Exists(fs, p)
    THEN "error" ELSE out

\* The filesystem after the handler's file operations.
\*   render_dalle_image writes the image (lines 111-113) before its INSERT;
\*   generate_text_to_speech opens audio_file_path with "wb" and writes the
\*   speech (lines 156-157), and removes the file after the upload (line
\*   166); when the upload or the removal raises the file stays.
FilesAfterDispatch(fs, w, out, p) ==
    LET call == w.response.tool_calls[w.idx]
    IN CASE call.name = "render_dalle_image" /\ out = "proceed" ->
              WriteFile(fs, p, w.prompt)
         [] call.name = "generate_text_to_speech" /\ out = "ok" ->
              RemoveFile(fs, p)
         [] call.name = "generate_text_to_speech" /\ out = "raise" ->
              WriteFile(fs, p, w.prompt)
         [] OTHER -> fs

\* Line 163: generate_text_to_speech posts the speech file to the user.
OutboxAfterUpload(box, w, out) ==
    IF w.response.tool_calls[w.idx].name = "generate_text_to_speech"
       /\ out = "ok"
    THEN Send(box, w.chatid, "voice") ELSE box

\* The chat a reading handler selects by: list_unallowed_users and
\* list_admin_users select by no chat.
QueryChat(w, name) ==
    IF name \in {"list_unallowed_users", "list_admin_users"}
    THEN 0 ELSE w.chatid

\* db_cursor after lines 443-521 for the tool call at w.idx: a reading
\* handler has executed its SELECT, a failed execute leaves no rows, every
\* other call leaves the cursor alone up to its write section.
CursorAfterDispatch(cur, d, w, out) ==
    LET call == w.response.tool_calls[w.idx]
    IN IF call.name \in ReadingHandlers /\ call.name \in DispatchBranches
       THEN IF out = "ok"
            THEN Select(d, call.name, QueryChat(w, call.name))
            ELSE NoRows
       ELSE cur

\* Lines 443-521: one iteration of the loop over tool_calls, up to the write
\* section of the handler, to the fetch of a reading handler or to the
\* handler's return.
Dispatch(t) ==
    LET w == worker[t]
        call == w.response.tool_calls[w.idx]
    IN /\ w.pc = "dispatch"
       /\ \E out \in HandlerOutcomes(call), stamp \in Stamps(call) :
            LET p == MediaPath(w, stamp)
                ran == Ran(files, w, out, p)
                w2 == [Dispatched(w, ran) EXCEPT !.path = p]
            IN /\ worker' = [worker EXCEPT ![t] = w2]
               /\ outbox' = OutboxAfter(OutboxAfterUpload(outbox, w, ran), w2)
               /\ files' = FilesAfterDispatch(files, w, ran, p)
               /\ cursor' = CursorAfterDispatch(cursor, db, w, out)
       /\ active_chats' = ChatsAfterDispatch(active_chats, w)
       /\ UNCHANGED <<db, db_write_lock, main, maintenance, voice,
                      nupdates, enq, userlog>>

\* Lines 211, 258, 269, 338 and 350: fetchall() of a reading handler returns
\* the rows db_cursor holds, which are the rows of the last statement that
\* any thread executed on it; the handler returns them as its result.
WorkerFetch(t) ==
    LET w == worker[t]
    IN /\ w.pc = "fetch"
       /\ worker' = [worker EXCEPT ![t].pc = "append_tool",
                                   ![t].function_response = "ok",
                                   ![t].assigned = TRUE,
                                   ![t].rows = cursor]
       /\ cursor' = NoRows
       /\ UNCHANGED <<db, db_write_lock, active_chats, main, maintenance,
                      voice, outbox, nupdates, enq, userlog, files>>

\* Lines 128-134 of render_dalle_image: the photo is posted to the user; a
\* failing post is caught and returned as an error.
SendPhoto(t) ==
    LET w == worker[t]
    IN /\ w.pc = "send_photo"
       /\ \E ok \in BOOLEAN :
            IF ok
            THEN /\ outbox' = Send(outbox, w.chatid, "photo")
                 /\ worker' = [worker EXCEPT ![t].pc = "append_tool",
                                             ![t].function_response = "ok",
                                             ![t].assigned = TRUE]
            ELSE /\ UNCHANGED outbox
                 /\ worker' = [worker EXCEPT ![t].pc = "append_tool",
                                             ![t].function_response = "error",
                                             ![t].assigned = TRUE]
       /\ UNCHANGED <<db, db_write_lock, active_chats, main, maintenance,
                      voice, nupdates, enq, userlog, files, cursor>>

\* The loop over tool_calls after the tool entry of call w.idx: the next
\* call, or the follow-up completion (line 533).
NextCall(w) ==
    [w EXCEPT !.idx = @ + 1,
              !.entries = Append(@, w.idx),
              !.assigned = FALSE, !.rows = NoRows,
              !.pc = IF w.idx < Len(w.response.tool_calls)
                     THEN "dispatch" ELSE "followup"]

\* Lines 524-531: the tool entry of the call.
AppendTool(t) ==
    LET w == worker[t]
        call == w.response.tool_calls[w.idx]
    IN /\ w.pc = "append_tool"
       /\ active_chats' = HistoryAppend(active_chats, w.chatid,
              Entry("tool", w.function_response, w.prompt, w.idx, call.name, 0))
       /\ worker' = [worker EXCEPT ![t] = NextCall(w)]
       /\ UNCHANGED <<db, db_write_lock, main, maintenance, voice, outbox,
                      nupdates, enq, userlog, files, cursor>>

\* Line 556, outside the try: send_message quotes the content, and
\* urllib.parse.quote_plus(None) raises TypeError, which ends the thread.
Replied(w) ==
    IF w.response.content = NULL
    THEN [w EXCEPT !.pc = "dead", !.outcome = "dead"]
    ELSE TurnEnds(w, "reply", "")

\* Lines 555-556: the assistant entry with the content of response_message,
\* then the reply to the user.
Emit(t) ==
    LET w == worker[t]
    IN /\ w.pc = "emit"
       /\ active_chats' = HistoryAppend(active_chats, w.chatid,
              Entry("assistant", w.response.content, w.prompt, 0, "", 0))
       /\ worker' = [worker EXCEPT ![t] = Replied(w)]
       /\ outbox' = OutboxAfter(outbox, Replied(w))
       /\ UNCHANGED <<db, db_write_lock, main, maintenance, voice, nupdates,
                      enq, userlog, files, cursor>>

(* ---------------------------------------------------------------------- *)
(* main(): the dispatcher loop                                             *)
(* ---------------------------------------------------------------------- *)

\* Line 821: SELECT ... WHERE id = ? AND user_allowed = 1.
UserAllowed(d, c) == d.users[c] # NoRow /\ d.users[c].user_allowed = "1"

\* A dispatcher that does not look the session up.
SessionAlwaysMissing(chats, c) == TRUE

\* A lookup that misses a session whose queue is empty.
SessionMissingWhenIdle(chats, c) ==
    ~chats[c].exists \/ chats[c].message_queue = <<>>

\* Line 839: if chatid not in active_chats.
SessionMissing(chats, c) == ~chats[c].exists

\* threading.Thread(...): the first thread not started so far.
FreshThread(ws) ==
    CHOOSE t \in Threads :
        /\ ws[t].pc = "unstarted"
        /\ \A u \in Threads : ws[u].pc = "unstarted" => t <= u

\* Lines 798-821: the next update, a text or a voice message of chat c; the
\* text of update n is n. The dispatcher executes the SELECT of the access
\* check on db_cursor, the cursor all threads share.
Poll(c, kind) ==
    /\ main.pc = "poll"
    /\ nupdates < MaxUpdates
    /\ nupdates' = nupdates + 1
    /\ main' = [main EXCEPT !.chatid = c, !.kind = kind,
                            !.text = nupdates + 1, !.pc = "fetch_allowed"]
    /\ cursor' = Select(db, "allowed", c)
    /\ UNCHANGED <<db, db_write_lock, active_chats, maintenance, worker,
                   voice, outbox, enq, userlog, files>>

\* Lines 822-824 and 838-849: fetchone() of the access check returns the
\* first row db_cursor holds, which is a row of the last statement that any
\* thread executed on it. Without a row the update is discarded and the
\* SELECT for the user's row is executed; with a row and without a session
\* the session's dict is built and the SELECT for is_admin is executed.
FetchAllowed ==
    LET c == main.chatid
    IN /\ main.pc = "fetch_allowed"
       /\ IF cursor = NoRows
          THEN /\ main' = [main EXCEPT !.pc = "fetch_known"]
               /\ cursor' = Select(db, "known", c)
          ELSE IF SessionMissing(active_chats, c)
          THEN /\ main' = [main EXCEPT !.pc = "fetch_admin"]
               /\ cursor' = Select(db, "is_admin", c)
          ELSE /\ main' = [main EXCEPT !.pc = "acquire", !.site = "touch"]
               /\ cursor' = AfterFetchone(db, cursor)
       /\ UNCHANGED <<db, db_write_lock, active_chats, maintenance, worker,
                      voice, outbox, nupdates, enq, userlog, files>>

\* Lines 825-832: fetchone() of the SELECT for the user's row. Without a row
\* the user is inserted next. Lines 826-831 read the sender's username,
\* first_name and last_name out of the update; Telegram leaves username and
\* last_name out for a sender who has none, the subscript then raises
\* KeyError, which main() does not catch.
FetchKnown ==
    /\ main.pc = "fetch_known"
    /\ IF cursor = NoRows
       THEN \E named \in BOOLEAN :
              main' = IF named
                      THEN [main EXCEPT !.pc = "acquire", !.site = "new_user"]
                      ELSE [main EXCEPT !.pc = "dead"]
       ELSE main' = [main EXCEPT !.pc = "poll"]
    /\ cursor' = AfterFetchone(db, cursor)
    /\ UNCHANGED <<db, db_write_lock, active_chats, maintenance, worker,
                   voice, outbox, nupdates, enq, userlog, files>>

\* Lines 850-851 and 1131-1133: is_admin of the new session is what
\* fetchone() returns, the tools are built from it and the session's thread
\* is started; the last contact is written next.
FetchAdmin ==
    LET c == main.chatid
    IN /\ main.pc = "fetch_admin"
       /\ \E t \in Threads : worker[t].pc = "unstarted"
       /\ active_chats' = [active_chats EXCEPT ![c] =
              NewSession(cursor # NoRows, FreshThread(worker))]
       /\ worker' = [worker EXCEPT ![FreshThread(worker)] =
              [Unstarted EXCEPT !.pc = "idle", !.chatid = c]]
       /\ main' = [main EXCEPT !.pc = "acquire", !.site = "touch"]
       /\ cursor' = AfterFetchone(db, cursor)
       /\ UNCHANGED <<db, db_write_lock, maintenance, voice, outbox,
                      nupdates, enq, userlog, files>>

\* Lines 832 and 1136: db_write_lock.acquire().
MainAcquire ==
    /\ main.pc = "acquire"
    /\ CanAcquire(db_write_lock)
    /\ db_write_lock' = MainT
    /\ main' = [main EXCEPT !.pc = "write"]
    /\ UNCHANGED <<db, active_chats, maintenance, worker, voice, outbox,
                   nupdates, enq, userlog, files, cursor>>

\* users.id is the PRIMARY KEY (line 577): the INSERT of a user whose row
\* exists raises sqlite3.IntegrityError.
Accepted(d, site, c) == ~(site = "new_user" /\ d.users[c] # NoRow)

\* Lines 833-835 and 1137-1138: the statement and its commit. main() catches
\* nothing here: an sqlite3.Error ends the dispatcher, the lock stays held.
MainWrite ==
    /\ main.pc = "write"
    /\ \E ok \in {b \in BOOLEAN : b => Accepted(db, main.site, main.chatid)} :
         IF ok
         THEN /\ db' = ApplyWrite(db, main.site, main.chatid, 0, NoArgs)
              /\ main' = [main EXCEPT !.pc = "release"]
         ELSE /\ main' = [main EXCEPT !.pc = "dead"]
              /\ UNCHANGED db
    /\ cursor' = NoRows
    /\ UNCHANGED <<db_write_lock, active_chats, maintenance, worker, voice,
                   outbox, nupdates, enq, userlog, files>>

\* queue.Queue.put(text) on the session's queue.
QueuePut(chats, c, text) ==
    [chats EXCEPT ![c].message_queue = Append(@, text)]

\* Lines 836 and 1139-1156: db_write_lock.release(); for an allowed chat the
\* session's last contact is set, a text is put on the queue and a voice
\* message gets its transcription thread.
MainRelease ==
    LET c == main.chatid
        touched == [active_chats EXCEPT
                       ![c].last_contact_timestamp = "set"]
    IN /\ main.pc = "release"
       /\ db_write_lock' = Free
       /\ main' = [main EXCEPT !.pc = "poll"]
       /\ CASE main.site = "new_user" ->
                 UNCHANGED <<active_chats, voice, enq>>
            [] main.site = "touch" /\ main.kind = "text" ->
                 /\ active_chats' = QueuePut(touched, c, main.text)
                 /\ enq' = [enq EXCEPT ![c] = Append(@, main.text)]
                 /\ UNCHANGED voice
            [] OTHER ->
                 /\ active_chats' = touched
                 /\ voice' = voice \cup {[chatid |-> c, text |-> main.text]}
                 /\ UNCHANGED enq
       /\ UNCHANGED <<db, maintenance, worker, outbox, nupdates, userlog,
                      files, cursor>>

\* extract_text_from_voice_message (lines 671-733): the thread gives up on a
\* download or transcription error, reports an empty transcript to the
\* user, or puts the transcribed text on the session's queue.
VoiceThread(v) ==
    /\ v \in voice
    /\ voice' = voice \ {v}
    /\ \E outcome \in {"put", "drop", "empty"} :
         CASE outcome = "put" ->
                /\ active_chats' = QueuePut(active_chats, v.chatid, v.text)
                /\ enq' = [enq EXCEPT ![v.chatid] = Append(@, v.text)]
                /\ UNCHANGED outbox
           [] outcome = "empty" ->
                /\ outbox' = Send(outbox, v.chatid, "no transcription")
                /\ UNCHANGED <<active_chats, enq>>
           [] OTHER -> UNCHANGED <<active_chats, enq, outbox>>
    /\ UNCHANGED <<db, db_write_lock, main, maintenance, worker, nupdates,
                   userlog, files, cursor>>

(* ---------------------------------------------------------------------- *)
(* maintenance_tasks(): the periodic thread                                *)
(* ---------------------------------------------------------------------- *)

IMAGES_TO_KEEP_PER_CHATID == 10

\* The image rows of chat c without a deletion timestamp, in id order.
LiveImages(d, c) ==
    SelectSeq(d.images, LAMBDA i : i.chatid = c /\ i.timestamp_deleted = NULL)

\* Lines 750-756: the ids of the oldest rows of chat c beyond the newest
\* IMAGES_TO_KEEP_PER_CHATID.
Excess(d, c) ==
    LET live == LiveImages(d, c)
        n == Len(live)
    IN IF n > IMAGES_TO_KEEP_PER_CHATID
       THEN [k \in 1..(n - IMAGES_TO_KEEP_PER_CHATID) |-> live[k].id]
       ELSE <<>>

\* The ids to remove in one cycle, chat after chat.
RECURSIVE ExcessAll(_, _)
ExcessAll(d, cs) ==
    IF cs = {} THEN <<>>
    ELSE LET c == CHOOSE x \in cs : \A y \in cs : x <= y
         IN Excess(d, c) \o ExcessAll(d, cs \ {c})

\* The keys of active_chats in insertion order (threads are started in the
\* order of the sessions).
RECURSIVE KeysInOrder(_, _)
KeysInOrder(chats, cs) ==
    IF cs = {} THEN <<>>
    ELSE LET c == CHOOSE x \in cs :
                     \A y \in cs : chats[x].thread <= chats[y].thread
         IN <<c>> \o KeysInOrder(chats, cs \ {c})

Keys(chats) == {c \in ChatIds : chats[c].exists}

\* The locals of maintenance_tasks: todo are the ids of the images still to
\* remove, left the keys of active_chats the for loop of line 775 has not
\* visited and used the size of the dict when the loop started. expired are
\* the sessions the current history pass found older than the threshold.
MaintAt(pc) ==
    [pc |-> pc, todo |-> <<>>, left |-> <<>>, used |-> 0, expired |-> {}]

\* Line 745: the SELECT of the rows without deletion timestamp is executed
\* on db_cursor.
MaintSelect ==
    /\ maintenance.pc = "select"
    /\ maintenance' = [maintenance EXCEPT !.pc = "fetch"]
    /\ cursor' = Select(db, "images", 0)
    /\ UNCHANGED <<db, db_write_lock, active_chats, main, worker, voice,
                   outbox, nupdates, enq, userlog, files>>

\* Lines 746-756: fetchall() returns the rows db_cursor holds, and the rows
\* to remove are computed from them. When they are the rows of the thread's
\* own SELECT no statement was executed since, and they are the image rows
\* of the store; the few rows of another thread's SELECT make no chat exceed
\* IMAGES_TO_KEEP_PER_CHATID.
MaintFetch ==
    /\ maintenance.pc = "fetch"
    /\ maintenance' =
         [maintenance EXCEPT
            !.todo = IF cursor = <<"images", 0>>
                     THEN ExcessAll(db, ChatIds) ELSE <<>>,
            !.pc = "remove"]
    /\ cursor' = NoRows
    /\ UNCHANGED <<db, db_write_lock, active_chats, main, worker, voice,
                   outbox, nupdates, enq, userlog, files>>

\* Line 759: the path of the image row with the given id.
RowPath(d, id) == ImagePath(d.images[id].chatid, d.images[id].image_filename)

\* Lines 756-764: os.remove of the next image; when it fails (it does when
\* the file does not exist) the row is skipped. After the last image the
\* history pass starts: the iterator over active_chats is created (line
\* 775).
MaintRemove ==
    /\ maintenance.pc = "remove"
    /\ IF maintenance.todo = <<>>
       THEN /\ maintenance' =
                 [maintenance EXCEPT
                    !.pc = "history",
                    !.left = KeysInOrder(active_chats, Keys(active_chats)),
                    !.used = Cardinality(Keys(active_chats)),
                    !.expired = {}]
            /\ UNCHANGED files
       ELSE \E ok \in BOOLEAN :
              LET p == RowPath(db, Head(maintenance.todo))
              IN IF ok /\ Exists(files, p)
                 THEN /\ maintenance' = [maintenance EXCEPT !.pc = "acquire"]
                      /\ files' = RemoveFile(files, p)
                 ELSE /\ maintenance' = [maintenance EXCEPT !.todo = Tail(@)]
                      /\ UNCHANGED files
    /\ UNCHANGED <<db, db_write_lock, active_chats, main, worker, voice,
                   outbox, nupdates, enq, userlog, cursor>>

\* Line 767: db_write_lock.acquire().
MaintAcquire ==
    /\ maintenance.pc = "acquire"
    /\ CanAcquire(db_write_lock)
    /\ db_write_lock' = MaintT
    /\ maintenance' = [maintenance EXCEPT !.pc = "write"]
    /\ UNCHANGED <<db, active_chats, main, worker, voice, outbox, nupdates,
                   enq, userlog, files, cursor>>

\* Lines 768-772: UPDATE images SET timestamp_deleted; an sqlite3.Error is
\* caught and logged, with the lock still held.
MaintWrite ==
    /\ maintenance.pc = "write"
    /\ \E ok \in BOOLEAN :
         IF ok
         THEN /\ db' = ApplyWrite(db, "mark_deleted", 0,
                                  Head(maintenance.todo), NoArgs)
              /\ maintenance' = [maintenance EXCEPT !.pc = "release"]
         ELSE /\ maintenance' = [maintenance EXCEPT !.pc = "remove",
                                                    !.todo = Tail(@)]
              /\ UNCHANGED db
    /\ cursor' = NoRows
    /\ UNCHANGED <<db_write_lock, active_chats, main, worker, voice, outbox,
                   nupdates, enq, userlog, files>>

\* Line 770: db_write_lock.release(), then the next image.
MaintRelease ==
    /\ maintenance.pc = "release"
    /\ db_write_lock' = Free
    /\ maintenance' = [maintenance EXCEPT !.pc = "remove", !.todo = Tail(@)]
    /\ UNCHANGED <<db, active_chats, main, worker, voice, outbox, nupdates,
                   enq, userlog, files, cursor>>

\* A pass that drops the session it finds idle.
ExpireSession(chats, c, expired) ==
    IF chats[c].message_history # <<>> /\ expired
    THEN [chats EXCEPT ![c] = NoSession]
    ELSE chats

\* A pass that empties every history it visits.
ExpireAlways(chats, c, expired) ==
    [chats EXCEPT ![c].message_history = <<>>]

\* Lines 776-779 for one session: a non-empty history is replaced by [] when
\* the last contact is older than MESSAGE_HISTORY_TIMEOUT_MINUTES; expired is
\* the outcome of that comparison with the clock.
ExpireHistory(chats, c, expired) ==
    IF chats[c].message_history # <<>> /\ expired
    THEN [chats EXCEPT ![c].message_history = <<>>]
    ELSE chats

\* Lines 775-782: one step of the for loop over active_chats. The dict
\* iterator raises RuntimeError when the dict changed size since the loop
\* started, which ends the thread; after the last key the thread sleeps.
MaintHistory ==
    /\ maintenance.pc = "history"
    /\ IF Cardinality(Keys(active_chats)) # maintenance.used
       THEN /\ maintenance' = [maintenance EXCEPT !.pc = "dead"]
            /\ UNCHANGED active_chats
       ELSE IF maintenance.left = <<>>
       THEN /\ maintenance' = [maintenance EXCEPT !.pc = "select"]
            /\ UNCHANGED active_chats
       ELSE \E expired \in BOOLEAN :
              /\ maintenance' =
                   [maintenance EXCEPT
                      !.left = Tail(@),
                      !.expired = IF expired
                                  THEN @ \cup {Head(maintenance.left)}
                                  ELSE @]
              /\ active_chats' =
                   ExpireHistory(active_chats, Head(maintenance.left), expired)
    /\ UNCHANGED <<db, db_write_lock, main, worker, voice, outbox, nupdates,
                   enq, userlog, files, cursor>>

(* ---------------------------------------------------------------------- *)
(* connect_to_database(): the migrations at startup                        *)
(* ---------------------------------------------------------------------- *)

\* A main() that goes on after connect_to_database raised.
FatalIgnored(m) ==
    [m EXCEPT !.pc = "opened", !.failed = TRUE, !.runs = @ + 1]

\* Lines 786-790: connect_to_database raised; main() prints the error and
\* returns.
Fatal(m) == [m EXCEPT !.pc = "fatal", !.failed = TRUE, !.runs = @ + 1]

\* Lines 562-573: sqlite3.connect, which can fail, then PRAGMA user_version
\* is read into the local user_version. runs counts the runs that opened the
\* store: a failed sqlite3.connect has not run on it.
Connect ==
    /\ main.pc = "connect"
    /\ \E ok \in BOOLEAN :
         main' = IF ok
                 THEN [main EXCEPT !.pc = "migrate", !.uv = db.user_version,
                                   !.k = 0, !.failed = FALSE]
                 ELSE [Fatal(main) EXCEPT !.runs = main.runs]
    /\ UNCHANGED <<db, db_write_lock, active_chats, maintenance, worker,
                   voice, outbox, nupdates, enq, userlog, files, cursor>>

\* Lines 575-666: the k-th "if user_version == k" block. An sqlite3.Error
\* leaves connect_to_database, and main() returns (lines 788-790); after the
\* last block the store is open.
Migrate ==
    LET r == MigrationStep(main.k, [db |-> db, uv |-> main.uv, err |-> FALSE])
    IN /\ main.pc = "migrate"
       /\ db' = r.db
       /\ main' = IF r.err
                  THEN Fatal(main)
                  ELSE IF main.k = 4
                  THEN [main EXCEPT !.pc = "opened", !.uv = r.uv,
                                    !.runs = @ + 1]
                  ELSE [main EXCEPT !.k = @ + 1, !.uv = r.uv]
       /\ UNCHANGED <<db_write_lock, active_chats, maintenance, worker,
                      voice, outbox, nupdates, enq, userlog, files, cursor>>

\* The process is started again on the same store.
Restart ==
    /\ main.pc \in {"fatal", "opened"}
    /\ main.runs < MaxRuns
    /\ main' = [main EXCEPT !.pc = "connect"]
    /\ UNCHANGED <<db, db_write_lock, active_chats, maintenance, worker,
                   voice, outbox, nupdates, enq, userlog, files, cursor>>

\* The store at stored version v: the blocks before v applied to an empty
\* file; at version 5 the store a started process works on.
RECURSIVE DbAt(_)
DbAt(v) ==
    IF v = 0 THEN EmptyDb
    ELSE IF v = 5 THEN OpenedDb
    ELSE MigrationStep(v - 1,
             [db |-> DbAt(v - 1), uv |-> v - 1, err |-> FALSE]).db

SecondUser == [user_allowed |-> "1", is_admin |-> NULL,
               last_contact_timestamp |-> NULL]

\* The stores connect_to_database can find: each stored version, the second
\* chat known or not once the users table exists.
MigrationDbs ==
    {EmptyDb} \cup
    {[DbAt(v) EXCEPT !.users[2] = u] :
        v \in 1..5, u \in {NoRow, SecondUser,
                           [SecondUser EXCEPT !.user_allowed = "0"]}}

MainAt(pc) ==
    [pc |-> pc, chatid |-> 0, kind |-> "", text |-> 0, site |-> "",
     uv |-> 0, k |-> 0, runs |-> 0, failed |-> FALSE]

Quiet ==
    /\ db_write_lock = Free
    /\ active_chats = [c \in ChatIds |-> NoSession]
    /\ maintenance = MaintAt("select")
    /\ worker = [t \in Threads |-> Unstarted]
    /\ voice = {}
    /\ outbox = <<>>
    /\ nupdates = 0
    /\ enq = [c \in ChatIds |-> <<>>]
    /\ userlog = [c \in ChatIds |-> <<>>]
    /\ cursor = NoRows

\* The files of the image rows that are not marked deleted.
FilesOf(d) ==
    [p \in {RowPath(d, i) : i \in {k \in DOMAIN d.images :
                                     d.images[k].timestamp_deleted = NULL}}
       |-> 0]

InitMig ==
    /\ db \in MigrationDbs
    /\ main = MainAt("connect")
    /\ Quiet
    /\ files = NoFiles

NextMig == Connect \/ Migrate \/ Restart

SpecMig == InitMig /\ [][NextMig]_vars

(* ---------------------------------------------------------------------- *)
(* The running process                                                     *)
(* ---------------------------------------------------------------------- *)

\* Lines 793-794: main() starts the maintenance thread once the store is
\* open, and enters its loop over the updates.
StartMaintenance ==
    /\ main.pc = "opened"
    /\ maintenance.pc = "unstarted"
    /\ maintenance' = MaintAt("select")
    /\ main' = [main EXCEPT !.pc = "poll"]
    /\ UNCHANGED <<db, db_write_lock, active_chats, worker, voice, outbox,
                   nupdates, enq, userlog, files, cursor>>

\* Sequences of 1 to MaxCalls tool calls drawn from calls.
CallSeqs(calls) == UNION {[1..n -> calls] : n \in 1..MaxCalls}

\* The completion results over the given tool calls: a reply with text, a
\* reply without content, or a reply that carries tool calls.
Results(calls) ==
    {[content |-> c, tool_calls |-> <<>>] : c \in {"text", NULL}}
    \cup {[content |-> NULL, tool_calls |-> s] : s \in CallSeqs(calls)}

ExpenseArgs == [NoArgs EXCEPT !.amount = <<12>>, !.date = <<1>>]

\* The tool calls of the completion results of a running process: a handler
\* that writes to the store and the removal of the second chat's access.
SysCalls ==
    {Call("add_expense", ExpenseArgs),
     Call("disallow_chatid_to_chat_with_bot", [NoArgs EXCEPT !.target = 2])}

\* The completion results of a running process: a reply, one tool call, or
\* the write followed by the removal of access. The other sequences of
\* calls are those of the turn-level runs.
SysResults ==
    {r \in Results(SysCalls) :
        \/ Len(r.tool_calls) <= 1
        \/ /\ r.tool_calls[1].name = "add_expense"
           /\ r.tool_calls[2].name = "disallow_chatid_to_chat_with_bot"}

\* Image rows 1..n of chat c, none deleted.
ImageRows(c, n) ==
    [k \in 1..n |-> [id |-> k, chatid |-> c, image_filename |-> k,
                     timestamp_deleted |-> NULL]]

\* The stores a process opens: the second chat unknown or allowed, the
\* images table with one row beyond the retention count.
StartDbs ==
    {[OpenedDb EXCEPT
        !.users[2] = u,
        !.images = ImageRows(TELEGRAM_ADMIN_ID, IMAGES_TO_KEEP_PER_CHATID + 1)] :
        u \in {NoRow, SecondUser}}

\* main() after connect_to_database() and the start of the maintenance
\* thread (lines 786-796).
Init ==
    /\ db \in StartDbs
    /\ main = MainAt("poll")
    /\ Quiet
    /\ files = FilesOf(db)

\* The access check of the dispatcher after its SELECT.
MainFetch == FetchAllowed \/ FetchKnown \/ FetchAdmin

MainNext ==
    \/ \E c \in ChatIds, kind \in {"text", "voice"} : Poll(c, kind)
    \/ MainFetch
    \/ MainAcquire \/ MainWrite \/ MainRelease

\* The image pass of the maintenance thread, a writer of the store.
MaintImages ==
    \/ MaintSelect \/ MaintFetch \/ MaintRemove \/ MaintAcquire
    \/ MaintWrite
    \/ MaintRelease

\* The steps of one worker thread, the first completion's result apart.
TurnNext(t) ==
    \/ Dequeue(t) \/ AppendUser(t) \/ CompletionFails(t)
    \/ \E content \in {"text", NULL} : FollowUpReturns(t, content)
    \/ WorkerAcquire(t) \/ WorkerWrite(t) \/ WorkerRelease(t)
    \/ Dispatch(t) \/ AppendTool(t) \/ Emit(t)

Next ==
    \/ MainNext
    \/ MaintImages
    \/ \E v \in voice : VoiceThread(v)
    \/ \E t \in Threads : TurnNext(t)
    \/ \E t \in Threads : \E r \in SysResults : CompletionReturns(t, r)

Spec == Init /\ [][Next]_vars

(* ---------------------------------------------------------------------- *)
(* The process from its start                                              *)
(* ---------------------------------------------------------------------- *)

\* main() is entered: no thread is started, the store is any of the stores
\* connect_to_database can find.
InitStart ==
    /\ db \in MigrationDbs
    /\ main = MainAt("connect")
    /\ maintenance = MaintAt("unstarted")
    /\ db_write_lock = Free
    /\ active_chats = [c \in ChatIds |-> NoSession]
    /\ worker = [t \in Threads |-> Unstarted]
    /\ voice = {}
    /\ outbox = <<>>
    /\ nupdates = 0
    /\ enq = [c \in ChatIds |-> <<>>]
    /\ userlog = [c \in ChatIds |-> <<>>]
    /\ cursor = NoRows
    /\ files = NoFiles

NextStart ==
    \/ Connect \/ Migrate \/ StartMaintenance
    \/ MainNext
    \/ MaintSelect \/ MaintFetch \/ MaintRemove
    \/ \E v \in voice : VoiceThread(v)
    \/ \E t \in Threads : TurnNext(t)
    \/ \E t \in Threads : \E r \in SysResults : CompletionReturns(t, r)

SpecStart == InitStart /\ [][NextStart]_vars

(* ---------------------------------------------------------------------- *)
(* One conversation: its worker and the history pass                       *)
(* ---------------------------------------------------------------------- *)

\* The store after the administrator's updates were received.
TurnDb ==
    [OpenedDb EXCEPT !.users[TELEGRAM_ADMIN_ID].last_contact_timestamp = "set",
                     !.users[2] = SecondUser]

\* The administrator's session with n texts 1..n on its queue and its
\* thread waiting at message_queue.get().
Queued(n) ==
    /\ active_chats =
         [c \in ChatIds |->
            IF c = TELEGRAM_ADMIN_ID
            THEN [NewSession(TRUE, 1) EXCEPT
                    !.message_queue = [i \in 1..n |-> i],
                    !.last_contact_timestamp = "set"]
            ELSE NoSession]
    /\ worker = [t \in Threads |->
                   IF t = 1
                   THEN [Unstarted EXCEPT !.pc = "idle",
                                          !.chatid = TELEGRAM_ADMIN_ID]
                   ELSE Unstarted]
    /\ enq = [c \in ChatIds |->
                IF c = TELEGRAM_ADMIN_ID THEN [i \in 1..n |-> i] ELSE <<>>]
    /\ nupdates = n
    /\ main = [MainAt("poll") EXCEPT !.chatid = TELEGRAM_ADMIN_ID,
                                     !.kind = "text", !.text = n]
    /\ db_write_lock = Free
    /\ maintenance = MaintAt("select")
    /\ voice = {}
    /\ outbox = <<>>
    /\ userlog = [c \in ChatIds |-> <<>>]
    /\ cursor = NoRows

\* The tool calls of a turn: a handler that writes, the history clear, the
\* two administrative calls and a name that is not registered.
TurnCalls ==
    {Call("add_expense", ExpenseArgs),
     Call("clear_message_history", NoArgs),
     Call("promote_user_to_admin", [NoArgs EXCEPT !.target = 2]),
     Call("disallow_chatid_to_chat_with_bot", [NoArgs EXCEPT !.target = 2]),
     Call("no_such_tool", NoArgs)}

InitTurn ==
    /\ db = TurnDb
    /\ Queued(MaxQueued)
    /\ files = NoFiles

NextTurn ==
    \/ \E t \in Threads : TurnNext(t)
    \/ \E t \in Threads : \E r \in Results(TurnCalls) : CompletionReturns(t, r)
    \/ MaintSelect \/ MaintFetch \/ MaintRemove \/ MaintHistory

SpecTurn == InitTurn /\ [][NextTurn]_vars

(* ---------------------------------------------------------------------- *)
(* One turn: the tool handlers                                             *)
(* ---------------------------------------------------------------------- *)

\* The tool calls of a turn that reach the handlers with and without a
\* write section.
ToolCalls ==
    {Call("add_expense", ExpenseArgs),
     Call("remove_expenses", ExpenseArgs),
     Call("remove_expenses", [NoArgs EXCEPT !.start_date = <<1>>,
                                            !.end_date = <<2>>]),
     Call("remove_expenses", [NoArgs EXCEPT !.amount = <<0>>,
                                            !.date = <<1>>]),
     Call("remove_expenses", NoArgs),
     Call("add_thing_to_items_list", NoArgs),
     Call("allow_chatid_to_chat_with_bot",
          [NoArgs EXCEPT !.target = 2, !.form = "int"]),
     Call("disallow_chatid_to_chat_with_bot",
          [NoArgs EXCEPT !.target = TELEGRAM_ADMIN_ID, !.form = "int"]),
     Call("disallow_chatid_to_chat_with_bot",
          [NoArgs EXCEPT !.target = TELEGRAM_ADMIN_ID, !.form = "str"]),
     Call("render_dalle_image", NoArgs),
     Call("generate_text_to_speech", NoArgs),
     Call("show_items_list", NoArgs)}

\* The administrator has one stored expense, of amount 12 or of amount 0,
\* and sends one text; /tmp is empty or holds a speech file that an earlier
\* upload failure left behind.
InitTool ==
    /\ \E amount \in {12, 0} :
          db = [TurnDb EXCEPT !.expenses =
                   <<[chatid |-> TELEGRAM_ADMIN_ID, amount |-> amount,
                      date |-> 1]>>]
    /\ Queued(1)
    /\ files \in {NoFiles, WriteFile(NoFiles, AudioPath(1), 0)}

NextTool ==
    \/ \E t \in Threads : TurnNext(t)
    \/ \E t \in Threads : SendPhoto(t)
    \/ \E t \in Threads : WorkerFetch(t)
    \/ \E t \in Threads : \E r \in Results(ToolCalls) : CompletionReturns(t, r)

SpecTool == InitTool /\ [][NextTool]_vars

(* ---------------------------------------------------------------------- *)
(* Two conversations: the administrative calls                             *)
(* ---------------------------------------------------------------------- *)

\* The calls that change a user's access or admin flag, the target passed
\* as the integer chat id or as a string.
AdminCalls ==
    {Call("allow_chatid_to_chat_with_bot",
          [NoArgs EXCEPT !.target = 2, !.form = "int"]),
     Call("allow_chatid_to_chat_with_bot",
          [NoArgs EXCEPT !.target = 2, !.form = "str"]),
     Call("promote_user_to_admin", [NoArgs EXCEPT !.target = 2])}

\* The administrator and the second chat, which is allowed and no admin,
\* have each sent one text: both sessions exist, each with its thread at
\* message_queue.get() and its text on the queue.
InitAdmin ==
    /\ db = TurnDb
    /\ active_chats =
         [c \in ChatIds |->
            [NewSession(c = TELEGRAM_ADMIN_ID, c) EXCEPT
                !.message_queue = <<c>>,
                !.last_contact_timestamp = "set"]]
    /\ worker = [t \in Threads |->
                   IF t \in ChatIds
                   THEN [Unstarted EXCEPT !.pc = "idle", !.chatid = t]
                   ELSE Unstarted]
    /\ enq = [c \in ChatIds |-> <<c>>]
    /\ nupdates = 2
    /\ main = [MainAt("poll") EXCEPT !.chatid = 2, !.kind = "text",
                                     !.text = 2]
    /\ db_write_lock = Free
    /\ maintenance = MaintAt("select")
    /\ voice = {}
    /\ outbox = <<>>
    /\ userlog = [c \in ChatIds |-> <<>>]
    /\ cursor = NoRows
    /\ files = NoFiles

NextAdmin ==
    \/ \E t \in Threads : TurnNext(t)
    \/ \E t \in Threads : \E r \in Results(AdminCalls) : CompletionReturns(t, r)

SpecAdmin == InitAdmin /\ [][NextAdmin]_vars

(* ---------------------------------------------------------------------- *)
(* Two conversations: the item and expense tools                           *)
(* ---------------------------------------------------------------------- *)

\* The handlers on the items and expenses tables.
ItemExpenseTools ==
    {"add_thing_to_items_list", "show_items_list", "add_expense",
     "retrieve_expenses", "retrieve_expense_categories", "remove_expenses"}

\* The calls of the turns: an add, a show or retrieve and a remove.
ItemCalls ==
    {Call("add_thing_to_items_list", NoArgs),
     Call("show_items_list", NoArgs),
     Call("add_expense", ExpenseArgs),
     Call("retrieve_expenses", NoArgs),
     Call("remove_expenses", ExpenseArgs)}

\* Both sessions exist with one text on their queues, as in InitAdmin; each
\* chat has one stored item and one stored expense.
InitItems ==
    /\ db = [TurnDb EXCEPT
                !.items = [c \in ChatIds |-> [chatid |-> c]],
                !.expenses = [c \in ChatIds |->
                                [chatid |-> c, amount |-> 12, date |-> 1]]]
    /\ active_chats =
         [c \in ChatIds |->
            [NewSession(c = TELEGRAM_ADMIN_ID, c) EXCEPT
                !.message_queue = <<c>>,
                !.last_contact_timestamp = "set"]]
    /\ worker = [t \in Threads |->
                   IF t \in ChatIds
                   THEN [Unstarted EXCEPT !.pc = "idle", !.chatid = t]
                   ELSE Unstarted]
    /\ enq = [c \in ChatIds |-> <<c>>]
    /\ nupdates = 2
    /\ main = [MainAt("poll") EXCEPT !.chatid = 2, !.kind = "text",
                                     !.text = 2]
    /\ db_write_lock = Free
    /\ maintenance = MaintAt("select")
    /\ voice = {}
    /\ outbox = <<>>
    /\ userlog = [c \in ChatIds |-> <<>>]
    /\ cursor = NoRows
    /\ files = NoFiles

\* The completion results of the turns: a reply or one call.
ItemResults == {r \in Results(ItemCalls) : Len(r.tool_calls) <= 1}

NextItems ==
    \/ \E t \in Threads : TurnNext(t)
    \/ \E t \in Threads : WorkerFetch(t)
    \/ \E t \in Threads : \E r \in ItemResults : CompletionReturns(t, r)

SpecItems == InitItems /\ [][NextItems]_vars

(* ---------------------------------------------------------------------- *)
(* Two conversations under fair scheduling                                 *)
(* ---------------------------------------------------------------------- *)

\* The tool call of the turns: a handler with a write section.
FairCalls == {Call("add_expense", ExpenseArgs)}

\* Both chats are allowed, no update has arrived.
InitFair ==
    /\ db = TurnDb
    /\ main = MainAt("poll")
    /\ Quiet
    /\ files = NoFiles

NextFair ==
    \/ \E c \in ChatIds : Poll(c, "text")
    \/ MainFetch
    \/ MainAcquire \/ MainWrite \/ MainRelease
    \/ \E t \in Threads : TurnNext(t)
    \/ \E t \in Threads : \E r \in Results(FairCalls) : CompletionReturns(t, r)

\* The steps of a worker that wait for nothing but the interpreter and, at
\* acquire(), the lock.
LocalStep(t) ==
    \/ Dequeue(t) \/ AppendUser(t) \/ AppendTool(t)
    \/ WorkerAcquire(t) \/ WorkerWrite(t) \/ WorkerRelease(t)

\* The steps of a worker that end a call to the completion service, to a
\* tool handler or to Telegram.
ExternalStep(t) ==
    \/ CompletionFails(t) \/ Dispatch(t) \/ Emit(t)
    \/ \E content \in {"text", NULL} : FollowUpReturns(t, content)
    \/ \E r \in Results(FairCalls) : CompletionReturns(t, r)

\* The threads are scheduled fairly: the dispatcher and every worker take
\* their next local step when they can. The external calls of the second
\* conversation return; those of the administrator's may hang.
Fairness ==
    /\ WF_vars(MainFetch \/ MainAcquire \/ MainWrite \/ MainRelease)
    /\ \A t \in Threads : WF_vars(LocalStep(t))
    /\ \A t \in Threads : WF_vars(worker[t].chatid = 2 /\ ExternalStep(t))

SpecFair == InitFair /\ [][NextFair]_vars /\ Fairness

(* ---------------------------------------------------------------------- *)
(* The dispatcher and the whole maintenance cycle                          *)
(* ---------------------------------------------------------------------- *)

\* The maintenance thread runs its image pass and its history pass while
\* the dispatcher receives texts and creates the sessions.
NextSweep ==
    \/ \E c \in ChatIds : Poll(c, "text")
    \/ MainFetch
    \/ MainAcquire \/ MainWrite \/ MainRelease
    \/ MaintImages
    \/ MaintHistory

SpecSweep == Init /\ [][NextSweep]_vars

(* ---------------------------------------------------------------------- *)
(* Properties                                                              *)
(* ---------------------------------------------------------------------- *)

\* A thread between line 414 (the dequeue) and the end of the turn.
InTurn(w) == w.pc \notin {"unstarted", "idle", "dead"}

\* A thread back at message_queue.get() after a turn.
TurnOver(w) == w.pc = "idle" /\ w.outcome # ""

History(c) == active_chats[c].message_history

CallName(w, i) == w.response.tool_calls[i].name

\* The position of the first clear_message_history among the tool calls of
\* w's result, or one past the last call.
ClearAt(w) ==
    LET n == Len(w.response.tool_calls)
        at == {i \in 1..n : CallName(w, i) = "clear_message_history"}
    IN IF at = {} THEN n + 1
       ELSE CHOOSE i \in at : \A j \in at : i <= j

\* C1: for every conversation id at most one thread is between the dequeue
\* of a text and the end of its turn, whatever updates arrived and whatever
\* tool calls (the removal of a chat's access included) were dispatched.
OneTurnPerConversation ==
    \A c \in ChatIds :
        Cardinality({t \in Threads :
                        worker[t].chatid = c /\ InTurn(worker[t])}) <= 1

\* The administrator's worker has gone through a call that removes the
\* second chat's access while the second chat's worker is in a turn.
SessionSurvivesDisallow ==
    \E t1, t2 \in Threads :
        /\ worker[t1].chatid = TELEGRAM_ADMIN_ID
        /\ worker[t1].pc = "followup"
        /\ \E i \in DOMAIN worker[t1].response.tool_calls :
              CallName(worker[t1], i) = "disallow_chatid_to_chat_with_bot"
        /\ worker[t2].chatid = 2
        /\ InTurn(worker[t2])
        /\ active_chats[2].exists

\* C2: once a turn that entered the loop over its tool calls is over, every call
\* before the first history clear has exactly one tool entry of that turn
\* with its id, a history clear ended the turn without a follow-up request,
\* and the follow-up is requested only when all entries are there.
EveryCallGetsItsEntry ==
    \A t \in Threads :
        LET w == worker[t]
            n == Len(w.response.tool_calls)
        IN /\ (TurnOver(w) /\ w.exc # "completion" /\ w.idx >= 1) =>
                /\ \A i \in 1..n :
                      i < ClearAt(w) =>
                        Cardinality({k \in DOMAIN w.entries :
                                        w.entries[k] = i}) = 1
                /\ ClearAt(w) <= n => w.outcome = "cleared" /\ w.nreq = 1
           /\ w.pc = "followup" => w.entries = [i \in 1..n |-> i]

\* C3: the dispatch of a tool call that is not a history clear is followed
\* by the handler's write section or by the call's tool entry, never by the
\* end of the turn: a failing call does not abort the later calls.
FailedCallDoesNotAbort ==
    [][\A t \in Threads :
          (/\ worker[t].pc = "dispatch"
           /\ worker'[t] # worker[t]
           /\ CallName(worker[t], worker[t].idx) # "clear_message_history")
          => worker'[t].pc \in {"acquire", "append_tool"}]_vars

\* C4: the step that dispatches clear_message_history empties the history,
\* appends no entry, executes no later call, requests no follow-up, sends
\* exactly the fixed notice and puts the worker back at the queue; the
\* history is empty when that turn ends.
ClearEndsTheTurn ==
    [][\A t \in Threads :
          LET w == worker[t]
          IN (/\ w.pc = "dispatch"
              /\ worker'[t] # w
              /\ CallName(w, w.idx) = "clear_message_history")
             => /\ active_chats'[w.chatid].message_history = <<>>
                /\ worker'[t].pc = "idle"
                /\ worker'[t].outcome = "cleared"
                /\ worker'[t].idx = w.idx
                /\ worker'[t].entries = w.entries
                /\ worker'[t].nreq = 1
                /\ outbox' = Append(outbox, [chatid |-> w.chatid,
                                             text |-> "cleared"])]_vars

\* A turn ended by a clear that was the first of two calls.
ClearedBeforeSecondCall ==
    \E t \in Threads :
        LET w == worker[t]
        IN /\ TurnOver(w)
           /\ w.outcome = "cleared"
           /\ Len(w.response.tool_calls) = 2
           /\ w.idx = 1
           /\ History(w.chatid) = <<>>

\* The entries of role assistant a turn of text p left in the history.
AssistantEntries(c, p) ==
    {k \in DOMAIN History(c) :
        History(c)[k].role = "assistant" /\ History(c)[k].text = p}

\* C5 as stated: after a turn whose first or follow-up completion failed the
\* history holds no assistant entry of that turn.
FailedTurnHasNoAssistantEntry ==
    \A t \in Threads :
        LET w == worker[t]
        IN (TurnOver(w) /\ w.exc \in {"completion", "followup"})
           => AssistantEntries(w.chatid, w.prompt) = {}

\* C5: the step in which the first or the follow-up completion fails changes
\* no session (the user entry and the entries of the tool loop stay, no
\* reply entry is appended), sends exactly one failure notice and puts the
\* worker back at the queue; the history holds no reply entry of that turn.
CompletionFailureHandled ==
    [][\A t \in Threads :
          LET w == worker[t]
          IN (w.pc \in {"completing", "followup"} /\ worker'[t].pc = "idle")
             => /\ active_chats' = active_chats
                /\ worker'[t].outcome = "failed"
                /\ outbox' = Append(outbox, [chatid |-> w.chatid,
                                             text |-> "failed"])
                /\ \A k \in AssistantEntries(w.chatid, w.prompt) :
                      History(w.chatid)[k].tool_calls > 0]_vars

\* The follow-up of the first text failed with the assistant entry of its
\* tool calls in the history, and the worker is in the turn of the next text.
NextTurnAfterFailedFollowUp ==
    \E t \in Threads :
        LET w == worker[t]
        IN /\ InTurn(w)
           /\ w.prompt = 2
           /\ \E k \in DOMAIN outbox : outbox[k].text = "failed"
           /\ AssistantEntries(w.chatid, 1) # {}
           /\ \E k \in DOMAIN History(w.chatid) :
                 History(w.chatid)[k].role = "user"
                 /\ History(w.chatid)[k].text = 1

\* C6: no worker thread ever terminates.
WorkerNeverTerminates ==
    \A t \in Threads : worker[t].pc # "dead"

\* The texts of conversation c taken from its queue so far.
Dequeued(c) == Len(enq[c]) - Len(active_chats[c].message_queue)

\* C7: in every conversation the queue holds the texts put on it and not
\* yet taken, in put order; the user entries were appended in put order; the
\* turn in progress is the turn of the text taken last, and the user entry
\* of every text taken before it has been appended.
TurnsInQueueOrder ==
    \A c \in ChatIds :
        active_chats[c].exists =>
          LET q == active_chats[c].message_queue
              d == Dequeued(c)
              u == Len(userlog[c])
          IN /\ d >= 0
             /\ q = SubSeq(enq[c], d + 1, Len(enq[c]))
             /\ u \in {d - 1, d}
             /\ userlog[c] = SubSeq(enq[c], 1, u)
             /\ \A t \in Threads :
                   (worker[t].chatid = c /\ InTurn(worker[t])) =>
                     /\ worker[t].prompt = enq[c][d]
                     /\ u = d - 1 <=> worker[t].pc = "append_user"

\* The text of the second update was put on the queue before the
\* transcribed text of the first, and both turns started in that order.
VoiceOvertaken ==
    \E c \in ChatIds : userlog[c] = <<2, 1>>

\* The threads inside a write-and-commit section.
InWriteSection ==
    (IF main.pc \in {"write", "release"} THEN {MainT} ELSE {})
    \cup (IF maintenance.pc \in {"write", "release"} THEN {MaintT} ELSE {})
    \cup {W(t) : t \in {u \in Threads : worker[u].pc \in {"write", "release"}}}

\* C8: at most one thread is inside a write-and-commit section, that thread
\* holds the lock, and the store changes only in a step taken while the lock
\* is held.
WritesHoldTheLock ==
    /\ [](/\ Cardinality(InWriteSection) <= 1
          /\ \A s \in InWriteSection : db_write_lock = s)
    /\ [][db' # db => db_write_lock \in InWriteSection]_vars

\* The dispatcher is inside its write section while a worker and the
\* maintenance thread wait for the lock.
LockContended ==
    /\ main.pc = "write"
    /\ maintenance.pc = "acquire"
    /\ \E t \in Threads : worker[t].pc = "acquire"

\* C9: when the statement of a tool handler's write section is rejected, the
\* store is as before and the handler returns an error status, which becomes
\* the content of the call's tool entry.
RejectedWriteReturnsError ==
    [][\A t \in Threads :
          LET w == worker[t]
          IN (/\ w.pc = "write"
              /\ w.site \notin {"audit1", "audit2"}
              /\ worker'[t] # w
              /\ worker'[t].pc # "release")
             => /\ db' = db
                /\ worker'[t].pc = "append_tool"
                /\ worker'[t].function_response = "error"]_vars

\* The tool entry of a rejected add_expense: an error status, and the
\* expenses table holds the row it held before.
RejectedExpenseReported ==
    /\ Len(db.expenses) = 1
    /\ \E k \in DOMAIN History(TELEGRAM_ADMIN_ID) :
          LET e == History(TELEGRAM_ADMIN_ID)[k]
          IN e.role = "tool" /\ e.name = "add_expense" /\ e.content = "error"

\* C10: once connect_to_database has run on a store, running it again
\* changes neither the stored version nor the schema nor a row.
SecondRunChangesNothing ==
    [][main.runs >= 1 => db' = db]_vars

\* A second run has ended on a store that the first run left at version 4.
SecondRunEnded ==
    main.runs = 2 /\ main.pc = "fatal" /\ db.user_version = 4

\* C11: a run of connect_to_database applies each block exactly when the
\* local version equals the version it upgrades from, each applied block
\* stores the next version, and the run ends with the store at version 5.
RunEndsAtVersion5 ==
    /\ [][main.pc = "migrate" /\ main'.pc # "migrate" =>
             main'.pc = "opened" /\ db'.user_version = 5]_vars
    /\ [][main.pc = "migrate" =>
             \/ db'.user_version = db.user_version + 1 /\ main.uv = main.k
             \/ db'.user_version = db.user_version /\ main.uv # main.k]_vars

\* C12: when the image pass of a maintenance cycle is over, every
\* conversation has at most IMAGES_TO_KEEP_PER_CHATID image rows without a
\* deletion timestamp, and the rows with one are the oldest of their
\* conversation.
RetentionAfterSweep ==
    maintenance.pc = "history" =>
      /\ \A c \in ChatIds :
            Len(LiveImages(db, c)) <= IMAGES_TO_KEEP_PER_CHATID
      /\ \A i, j \in DOMAIN db.images :
            (/\ db.images[i].chatid = db.images[j].chatid
             /\ db.images[i].id < db.images[j].id
             /\ db.images[j].timestamp_deleted # NULL)
            => db.images[i].timestamp_deleted # NULL

AdminDisallowRejected ==
    [][\A t \in Threads :
          LET w == worker[t]
          IN (/\ w.pc = "dispatch"
              /\ worker'[t] # w
              /\ CallName(w, w.idx) = "disallow_chatid_to_chat_with_bot"
              /\ w.response.tool_calls[w.idx].args.target = TELEGRAM_ADMIN_ID)
             => /\ worker'[t].pc = "append_tool"
                /\ worker'[t].function_response = "error"
                /\ db'.users[TELEGRAM_ADMIN_ID] = db.users[TELEGRAM_ADMIN_ID]
                /\ active_chats'[TELEGRAM_ADMIN_ID].is_admin =
                     active_chats[TELEGRAM_ADMIN_ID].is_admin]_vars

\* C15: once a worker has processed a disallow_chatid_to_chat_with_bot call
\* that targets a conversation X other than the administrator (the tool entry
\* of the call is appended, or the turn ended at the call), the record of X
\* has user_allowed = 0 and is_admin = 0 and active_chats holds no session
\* of X.
DisallowRevokesAccess ==
    \A t \in Threads :
       LET w == worker[t]
       IN \A i \in 1..Len(w.response.tool_calls) :
             LET call == w.response.tool_calls[i]
             IN (/\ call.name = "disallow_chatid_to_chat_with_bot"
                 /\ call.args.target # TELEGRAM_ADMIN_ID
                 /\ \/ \E j \in 1..Len(w.entries) : w.entries[j] = i
                    \/ TurnOver(w) /\ w.idx = i)
                => /\ db.users[call.args.target].user_allowed = "0"
                   /\ db.users[call.args.target].is_admin = "0"
                   /\ ~active_chats[call.args.target].exists

\* C16: once the dispatcher is through with an update of a chat that has no
\* access, the chat has a user record with user_allowed = 0, no session and
\* nothing queued.
UnallowedContactOnlyRecorded ==
    (/\ nupdates >= 1
     /\ main.pc \in {"poll", "dead"}
     /\ ~UserAllowed(db, main.chatid))
    => /\ db.users[main.chatid] # NoRow
       /\ db.users[main.chatid].user_allowed = "0"
       /\ ~active_chats[main.chatid].exists
       /\ enq[main.chatid] = <<>>

\* The threads started for chat c.
WorkersOf(ws, c) == {t \in Threads : ws[t].pc # "unstarted" /\ ws[t].chatid = c}

\* C17: the dispatcher's session lookup is get-or-create. A step of the
\* dispatcher that finds no session of the chat creates one with an empty
\* history, the default model and an empty queue and starts exactly one
\* thread for it; a step that finds the session keeps its history, model,
\* tools and thread and starts no thread; a text is appended to the queue of
\* that session; and no chat ever has more than one thread.
SessionGetOrCreate ==
    [][\A c \in ChatIds :
          /\ Cardinality(WorkersOf(worker', c)) <= 1
          /\ (main' # main /\ ~active_chats[c].exists
                /\ active_chats'[c].exists)
             => /\ active_chats'[c].message_history = <<>>
                /\ active_chats'[c].message_queue = <<>>
                /\ active_chats'[c].model = "gpt-3.5-turbo-0125"
                /\ WorkersOf(worker, c) = {}
                /\ WorkersOf(worker', c) = {active_chats'[c].thread}
          /\ (main' # main /\ active_chats[c].exists)
             => /\ active_chats'[c].exists
                /\ active_chats'[c].message_history =
                     active_chats[c].message_history
                /\ active_chats'[c].model = active_chats[c].model
                /\ active_chats'[c].tools = active_chats[c].tools
                /\ active_chats'[c].thread = active_chats[c].thread
                /\ WorkersOf(worker', c) = WorkersOf(worker, c)
                /\ active_chats'[c].message_queue \in
                     {active_chats[c].message_queue,
                      Append(active_chats[c].message_queue, main.text)}
          /\ (/\ main.pc = "release" /\ main'.pc = "poll"
              /\ main.site = "touch" /\ main.kind = "text"
              /\ main.chatid = c)
             => active_chats'[c].message_queue =
                  Append(active_chats[c].message_queue, main.text)]_vars

\* A second text was put on the queue of a session whose history the first
\* turn had already filled.
SecondTextOnSameSession ==
    \E c \in ChatIds :
       /\ Len(enq[c]) = 2
       /\ active_chats[c].exists
       /\ active_chats[c].message_history # <<>>
       /\ active_chats[c].message_queue # <<>>
       /\ Cardinality(WorkersOf(worker, c)) = 1

\* C18: a handler the worker calls never raises. The step that calls the
\* handler of a tool call (every name with a branch, the history clear and
\* the mis-called promote_user_to_admin apart) and the statement of a
\* handler's write section lead to the handler's next step or to the call's
\* tool entry, never to except Exception and the end of the turn.
HandlersNeverRaise ==
    [][\A t \in Threads :
          LET w == worker[t]
          IN /\ (/\ w.pc = "dispatch"
                 /\ worker'[t] # w
                 /\ CallName(w, w.idx) \in
                      DispatchBranches \ {"clear_message_history",
                                          "promote_user_to_admin"})
                => worker'[t].pc \in {"acquire", "append_tool"}
             /\ (/\ w.pc = "write"
                 /\ worker'[t] # w
                 /\ w.site \notin {"audit1", "audit2"})
                => worker'[t].pc \in {"release", "append_tool"}]_vars

\* C19: remove_expenses with an exact (amount, date) pair, whatever the
\* amount, or with a (start_date, end_date) range goes on to its DELETE, and
\* the DELETE of an exact pair leaves no row of the caller with that amount
\* and date and keeps every other row; with neither it returns an error and
\* the expenses table is unchanged.
ExactPairDeletes ==
    [][\A t \in Threads :
          LET w == worker[t]
              a == w.response.tool_calls[w.idx].args
              pair == a.amount # None /\ a.date # None
              range == a.start_date # None /\ a.end_date # None
          IN /\ (/\ w.pc = "dispatch"
                 /\ worker'[t] # w
                 /\ CallName(w, w.idx) = "remove_expenses")
                => IF pair \/ range
                   THEN worker'[t].pc = "acquire"
                   ELSE /\ worker'[t].pc = "append_tool"
                        /\ worker'[t].function_response = "error"
                        /\ db' = db
             /\ (/\ w.pc = "write"
                 /\ w.site = "remove_expenses"
                 /\ worker'[t].pc = "release"
                 /\ pair)
                => db'.expenses =
                     SelectSeq(db.expenses, LAMBDA e :
                        ~(e.chatid = w.chatid /\ e.amount = a.amount[1]
                          /\ e.date = a.date[1]))]_vars

\* C20: a turn issues at most two completion requests, the first with the
\* tool definitions and the second without; a turn whose first completion
\* carries no tool call ends after one request, and a turn whose first
\* completion carries tool calls, none a history clear, that all got their
\* tool entry ends after two.
RequestsPerTurn ==
    \A t \in Threads :
       LET w == worker[t]
           n == Len(w.response.tool_calls)
       IN /\ w.nreq <= 2
          /\ Len(w.requests) = w.nreq
          /\ w.nreq >= 1 => w.requests[1] = "tools"
          /\ w.nreq = 2 => w.requests[2] = "no_tools"
          /\ (TurnOver(w) /\ w.exc # "completion" /\ n = 0) => w.nreq = 1
          /\ (/\ TurnOver(w) /\ w.exc # "completion"
              /\ n > 0 /\ ClearAt(w) > n
              /\ w.entries = [i \in 1..n |-> i])
             => w.nreq = 2

\* A turn with two tool calls has ended with its reply after two requests.
RepliedAfterTwoRequests ==
    \E t \in Threads :
       LET w == worker[t]
       IN /\ TurnOver(w) /\ w.outcome = "reply"
          /\ Len(w.entries) = 2
          /\ w.requests = <<"tools", "no_tools">>

\* C21: whenever no thread is between the file operation and the store
\* write of an image (the maintenance thread between os.remove and its
\* UPDATE, a worker between the file write and the INSERT of
\* render_dalle_image), every image row without deletion timestamp has its
\* file and every image file has its row.
RowsMatchArtifacts ==
    (/\ maintenance.pc \notin {"acquire", "write", "release"}
     /\ \A t \in Threads :
           ~(worker[t].site = "render_dalle_image"
             /\ worker[t].pc \in {"acquire", "write"}))
    => /\ \A i \in DOMAIN db.images :
             db.images[i].timestamp_deleted = NULL
                => Exists(files, RowPath(db, i))
       /\ \A p \in DOMAIN files :
             p[1] = "image" => \E i \in DOMAIN db.images : RowPath(db, i) = p

\* C22: a media handler that is called when the path it computes exists
\* returns an error result and changes neither the filesystem nor the store
\* and sends nothing.
NeverOverwrites ==
    [][\A t \in Threads :
          LET w == worker[t]
          IN (/\ w.pc = "dispatch"
              /\ worker'[t] # w
              /\ CallName(w, w.idx) \in MediaHandlers
              /\ Exists(files, worker'[t].path))
             => /\ worker'[t].pc = "append_tool"
                /\ worker'[t].function_response = "error"
                /\ files' = files
                /\ db' = db
                /\ outbox' = outbox]_vars

\* C23: once connect_to_database has failed, in sqlite3.connect or in a
\* migration, main() has returned and nothing else ever starts: the
\* maintenance thread is not started, no update is polled, active_chats has
\* no session and no worker or voice thread is started.
FailedStartStartsNothing ==
    main.failed =>
       /\ main.pc = "fatal"
       /\ maintenance.pc = "unstarted"
       /\ nupdates = 0
       /\ \A c \in ChatIds : ~active_chats[c].exists
       /\ \A t \in Threads : worker[t].pc = "unstarted"
       /\ voice = {}

\* The migration of a store at version 4 has failed in its last block.
MigrationFailedAtStart ==
    main.failed /\ main.pc = "fatal" /\ main.k = 4 /\ db.user_version = 4

\* A worker has processed a disallow_chatid_to_chat_with_bot call that
\* targets chat x: the call's tool entry is appended or the turn ended at it.
Revoked(x) ==
    \E t \in Threads :
       LET w == worker[t]
       IN \E i \in 1..Len(w.response.tool_calls) :
             /\ w.response.tool_calls[i].name =
                  "disallow_chatid_to_chat_with_bot"
             /\ w.response.tool_calls[i].args.target = x
             /\ \/ \E j \in 1..Len(w.entries) : w.entries[j] = i
                \/ TurnOver(w) /\ w.idx = i

HistoryOwnedByWorker ==
    [][\A c \in ChatIds :
          (/\ active_chats[c].exists
           /\ active_chats'[c].exists
           /\ InTurn(worker[active_chats[c].thread])
           /\ active_chats'[c].message_history #
                active_chats[c].message_history)
          => worker'[active_chats[c].thread] #
               worker[active_chats[c].thread]]_vars

\* C26: no step removes a key of active_chats unless the chat's access was
\* revoked, and a step of the maintenance thread or the step of a worker
\* that runs clear_message_history leaves the key set and every session's
\* queue, model, tools and thread as they were.
SessionsOnlyLoseHistory ==
    [][/\ \A c \in ChatIds :
             (active_chats[c].exists /\ ~active_chats'[c].exists)
                => Revoked(c)'
       /\ (\/ maintenance' # maintenance
           \/ \E t \in Threads :
                 /\ worker[t].pc = "dispatch"
                 /\ worker'[t] # worker[t]
                 /\ CallName(worker[t], worker[t].idx) =
                      "clear_message_history")
          => \A c \in ChatIds :
                /\ active_chats'[c].exists = active_chats[c].exists
                /\ active_chats[c].exists =>
                     /\ active_chats'[c].message_queue =
                          active_chats[c].message_queue
                     /\ active_chats'[c].model = active_chats[c].model
                     /\ active_chats'[c].tools = active_chats[c].tools
                     /\ active_chats'[c].thread = active_chats[c].thread]_vars

\* A session whose history the clear_message_history tool and the history
\* pass have emptied is still registered, with a text on its queue.
ClearedSessionKeepsQueue ==
    \E t \in Threads :
       LET w == worker[t]
       IN /\ TurnOver(w) /\ w.outcome = "cleared"
          /\ w.chatid \in maintenance.expired
          /\ active_chats[w.chatid].exists
          /\ History(w.chatid) = <<>>
          /\ active_chats[w.chatid].message_queue # <<>>

\* C27: a turn appends the system entry at its dequeue and then the user
\* entry with the dequeued text, and the first completion request of the
\* turn is issued on a history whose last entry is that user entry, whatever
\* the maintenance thread did in between.
FirstRequestCarriesUserEntry ==
    [][\A t \in Threads :
          LET c == worker[t].chatid
              h == History(c)
          IN /\ (worker[t].pc = "idle" /\ worker'[t].pc = "append_user")
                => /\ Len(active_chats'[c].message_history) = Len(h) + 1
                   /\ active_chats'[c].message_history[Len(h) + 1].role =
                        "system"
             /\ (worker[t].pc = "append_user" /\ worker'[t].pc = "completing")
                => /\ Len(active_chats'[c].message_history) = Len(h) + 1
                   /\ active_chats'[c].message_history[Len(h) + 1].role =
                        "user"
             /\ (worker[t].nreq = 0 /\ worker'[t].nreq = 1)
                => /\ Len(h) >= 1
                   /\ h[Len(h)].role = "user"
                   /\ h[Len(h)].text = worker[t].prompt]_vars

\* C28: a turn ends with a reply only in the step of lines 555-556, which
\* appends the assistant entry with the content of the last completion (the
\* follow-up's when the turn had tool calls) as the last entry of the
\* history and sends one message to the same chat, after the tool entry of
\* every call was appended; the turn left no other reply entry, and no other
\* step sends a reply.
ReplyEndsTheTurn ==
    [][/\ \A t \in Threads :
             LET w == worker[t]
                 c == w.chatid
                 n == Len(w.response.tool_calls)
             IN (/\ w.pc # "idle"
                 /\ worker'[t].pc = "idle"
                 /\ worker'[t].outcome = "reply")
                => /\ w.pc = "emit"
                   /\ w.response.content # NULL
                   /\ active_chats'[c].message_history =
                        Append(History(c),
                               Entry("assistant", w.response.content,
                                     w.prompt, 0, "", 0))
                   /\ outbox' = Append(outbox, [chatid |-> c,
                                                text |-> "reply"])
                   /\ w.entries = [i \in 1..n |-> i]
                   /\ w.nreq = IF n > 0 THEN 2 ELSE 1
                   /\ \A k \in AssistantEntries(c, w.prompt) :
                         History(c)[k].tool_calls > 0
       /\ (/\ Len(outbox') > Len(outbox)
           /\ outbox'[Len(outbox')].text = "reply")
          => \E t \in Threads :
                worker[t].pc = "emit" /\ worker'[t].pc = "idle"]_vars

\* A turn with one tool call has ended with its reply: the reply entry is
\* the last entry of the history and the reply the last message sent.
ReplySentAfterToolEntry ==
    \E t \in Threads :
       LET w == worker[t]
           h == History(w.chatid)
       IN /\ TurnOver(w) /\ w.outcome = "reply"
          /\ Len(w.entries) = 1
          /\ Len(h) >= 2
          /\ h[Len(h)].role = "assistant" /\ h[Len(h)].content = "text"
          /\ h[Len(h) - 1].role = "tool"
          /\ outbox # <<>>
          /\ outbox[Len(outbox)] = [chatid |-> w.chatid, text |-> "reply"]

\* C29: the first completion request of a turn carries the tools of the
\* session, and these hold the admin tools exactly when the session's
\* is_admin is set at the time of the request.
AdminToolsFollowFlag ==
    [][\A t \in Threads :
          (worker[t].nreq = 0 /\ worker'[t].nreq = 1)
          => LET s == active_chats[worker[t].chatid]
             IN (s.tools = "base+admin") <=> s.is_admin]_vars



\* The workers with a completion request or an outbound delivery in flight:
\* the first request, the follow-up request, the photo upload, the reply.
InExternalCall ==
    {t \in Threads :
        worker[t].pc \in {"completing", "followup", "send_photo", "emit"}}

\* C30: a thread with a completion or outbound-delivery call in flight does
\* not hold db_write_lock.
NoLockAcrossExternalCalls ==
    \A t \in InExternalCall : db_write_lock # W(t)

\* C31: a failed or hanging turn of the administrator's conversation does
\* not stall the second conversation or the dispatcher: every turn of the
\* second conversation ends, unless its own thread or the dispatcher failed
\* inside a write section, and the dispatcher gets the lock it waits for.
OthersNotStalled ==
    /\ \A t \in Threads :
          (worker[t].chatid = 2 /\ InTurn(worker[t]))
          ~> \/ ~InTurn(worker[t])
             \/ db_write_lock = W(t)
             \/ main.pc = "dead"
    /\ (main.pc = "acquire") ~> (main.pc = "write")

\* C32: the maintenance thread never ends and never blocks on a lock it
\* holds itself, so that every cycle reaches its history pass.
SweeperNeverStops ==
    /\ maintenance.pc # "dead"
    /\ ~(maintenance.pc = "acquire" /\ db_write_lock = MaintT)

\* C33: a thread that has acquired db_write_lock releases it, also when the
\* statement or the commit raised, and a thread that waits for the lock
\* gets it.
EveryAcquireReleased ==
    /\ \A t \in Threads : (db_write_lock = W(t)) ~> (db_write_lock # W(t))
    /\ (db_write_lock = MainT) ~> (db_write_lock # MainT)
    /\ \A t \in Threads :
          (worker[t].pc = "acquire") ~> (worker[t].pc = "write")

\* C34: the handler of an admin tool runs only in a turn of a conversation
\* whose session has is_admin set, and a step of a turn of another
\* conversation on a call of an admin tool changes no user row and no
\* session's is_admin.
AdminToolsNeedAdminFlag ==
    /\ [](\A t \in Threads :
             (/\ worker[t].pc \in {"acquire", "write", "release"}
              /\ worker[t].site \in AdminTools)
             => active_chats[worker[t].chatid].is_admin)
    /\ [][\A t \in Threads :
             (/\ worker'[t] # worker[t]
              /\ \/ /\ worker[t].pc = "dispatch"
                    /\ CallName(worker[t], worker[t].idx) \in AdminTools
                 \/ /\ worker[t].pc \in {"acquire", "write", "release"}
                    /\ worker[t].site \in AdminTools
              /\ ~active_chats[worker[t].chatid].is_admin)
             => /\ db'.users = db.users
                /\ \A c \in ChatIds :
                      active_chats'[c].is_admin = active_chats[c].is_admin]_vars

\* C35: the content of a tool entry is the value the handler of its call
\* returned: when the entry is appended, function_response was assigned by
\* the handler of the call the entry is for.
ToolEntryFromItsHandler ==
    \A t \in Threads : worker[t].pc = "append_tool" => worker[t].assigned

\* A history the completion service accepts: an assistant entry that carries
\* n tool calls is followed by the tool entries of the ids 1..n, and a tool
\* entry of id i comes i entries after an assistant entry that carries at
\* least i calls.
WellFormed(h) ==
    /\ \A k \in DOMAIN h :
          (h[k].role = "assistant" /\ h[k].tool_calls > 0) =>
             \A i \in 1..h[k].tool_calls :
                /\ k + i <= Len(h)
                /\ h[k + i].role = "tool"
                /\ h[k + i].tool_call_id = i
    /\ \A k \in DOMAIN h :
          h[k].role = "tool" =>
             /\ k - h[k].tool_call_id >= 1
             /\ h[k - h[k].tool_call_id].role = "assistant"
             /\ h[k - h[k].tool_call_id].tool_calls >= h[k].tool_call_id

\* C36: while a worker has a completion request in flight or waits at the
\* queue, the history of its session is well formed.
HistoryWellFormed ==
    \A t \in Threads :
        worker[t].pc \in {"completing", "followup", "idle"}
        => WellFormed(History(worker[t].chatid))

\* C38: the steps of allow_chatid_to_chat_with_bot change nothing but
\* user_allowed of the target's row: every other row, the target's is_admin
\* in the store and every session stay as they are.
AllowChangesOnlyAccess ==
    [][\A t \in Threads :
          LET w == worker[t]
          IN (/\ w.pc \in {"write", "release"}
              /\ w.site = "allow_chatid_to_chat_with_bot"
              /\ worker'[t] # w)
             => LET x == w.response.tool_calls[w.idx].args.target
                IN /\ \A c \in ChatIds :
                         \/ db'.users[c] = db.users[c]
                         \/ /\ c = x
                            /\ db'.users[c] =
                                 [db.users[c] EXCEPT !.user_allowed = "1"]
                   /\ active_chats' = active_chats]_vars

\* C39: a migration block that fails leaves the store as it was when the
\* block started, and no block changes the schema without storing the next
\* version.
MigrationStepAtomic ==
    /\ [][(main.pc = "migrate" /\ main'.pc = "fatal") => db' = db]_vars
    /\ [][(/\ main.pc = "migrate"
           /\ \/ db'.tables # db.tables
              \/ db'.columns # db.columns)
          => db'.user_version = db.user_version + 1]_vars

\* C40: a read returns the rows of the reader's own query. A fetch of the
\* dispatcher, of the maintenance thread or of a worker finds on db_cursor
\* nothing or rows of the SELECT that thread executed; the access check of
\* a user whose access flag is set finds the user, so the update goes on to
\* the session and is not discarded; and the dispatcher never inserts a
\* user whose row exists.
ReadsReturnOwnRows ==
    /\ [](main.pc = "fetch_allowed" /\ cursor # NoRows
            => cursor = <<"allowed", main.chatid>>)
    /\ [](maintenance.pc = "fetch" /\ cursor # NoRows
            => cursor = <<"images", 0>>)
    /\ [][(/\ main.pc = "fetch_allowed"
           /\ main'.pc # "fetch_allowed"
           /\ UserAllowed(db, main.chatid))
          => main'.pc \in {"fetch_admin", "acquire"}]_vars
    /\ [](main.pc \in {"acquire", "write"} /\ main.site = "new_user"
            => db.users[main.chatid] = NoRow)

\* The rows of the items and expenses tables that chat c does not own.
RowsOfOthers(d, c) ==
    <<SelectSeq(d.items, LAMBDA r : r.chatid # c),
      SelectSeq(d.expenses, LAMBDA r : r.chatid # c)>>

\* C37: the item and expense tools are confined to the calling
\* conversation. The write of a handler called in a turn of chat A leaves
\* the item and expense rows of every other chat as they were, and the
\* fetch of a show or retrieve handler called in a turn of chat A returns
\* the rows its own SELECT found for A, so what a chat is shown does not
\* depend on the calls of another chat's turns.
ToolsConfinedToCaller ==
    [][\A t \in Threads :
          LET w == worker[t]
          IN /\ (w.pc = "write" /\ w.site \in ItemExpenseTools)
                => RowsOfOthers(db', w.chatid) = RowsOfOthers(db, w.chatid)
             /\ (w.pc = "fetch" /\ worker'[t].pc = "append_tool"
                   /\ w.site \in ItemExpenseTools)
                => worker'[t].rows = Select(db, w.site, w.chatid)]_vars

====
